---- MODULE Spec2Model ----
(***************************************************************************)
(* Console-log extraction scripts of the Bookkeeper speed tests.           *)
(*                                                                         *)
(* Every script is a batch pipeline: read the log text, extract records,   *)
(* derive durations.  The log text is modelled by what the scripts'        *)
(* regular expressions can see of it: the timing lines                     *)
(*     <file>.js:<n> <EVENT_NAME>: <digits>                                *)
(* in document order (content.lines) and the FOLDER_ANALYSIS_DATA marker   *)
(* occurrences in document order (content.markers).  The offset of a       *)
(* timing line is its index: match.start() grows strictly with it.         *)
(***************************************************************************)
EXTENDS Integers, Sequences, FiniteSets, TLC

\* ------------------------------------------------------------------ bounds
MaxLen == 3
MaxMarkers == 2

MaxRuns == 2


\* ------------------------------------------------------------- input space
\* Timestamps written in the log; 0 is a legal timestamp.
Timestamps == {0, 2}

EventNames ==
    {"PROCESSING_START", "DEDUPLICATION_START", "UI_UPDATE_START", "ALL_FILES_DISPLAYED"}

\* The file name in front of a timing line: processingTimer.js ("main"),
\* fileHashWorker.js ("worker"), or a file neither pattern names ("other").
MatchedTags == {"main", "worker"}

\* The logs hold every event name from processingTimer.js, the run boundary
\* and one other event name from fileHashWorker.js, and one line that looks
\* like a run boundary but names another file.
LogLine ==
    [tag : {"main"}, name : EventNames, val : Timestamps]
        \cup [tag : {"worker"}, name : {"PROCESSING_START", "DEDUPLICATION_START"},
              val : Timestamps]
        \cup {[tag |-> "other", name |-> "PROCESSING_START", val |-> 0]}

TimingLogs == UNION {[1..n -> LogLine] : n \in 0..MaxLen}

\* ------------------------------------------------------------ Python values
None == [t |-> "None", v |-> 0]
PyInt(n) == [t |-> "int", v |-> n]
EmptyStr == [t |-> "str", v |-> 0]

\* dict[key] = value
DictSet(d, key, value) ==
    [k \in (DOMAIN d) \cup {key} |-> IF k = key THEN value ELSE d[k]]

EmptyDict == [k \in {} |-> 0]

VARIABLES
    script,             \* which script is running
    content,            \* the log text read by main(): [lines, markers]
    pc,                 \* position in the script
    all_matches,        \* merged (pos, event_type, timing, source) list
    test_run_data,      \* run number -> {event name -> timestamp}
    test_run_positions, \* run number -> offset of its PROCESSING_START
    timing_data,        \* the timing rows returned
    folder_data,        \* the folder records returned
    warnings,           \* lines printed for skipped or failing markers
    raised,             \* the exception that left the extractor, or "none"
    argv,               \* the command line and the file system main() sees
    exit_code,          \* the exit code of the process, None while it runs
    files,              \* the output files main() has written
    csv_call,           \* the arguments of a write_csv call
    csv_file,           \* the text write_csv has written
    durations_df,       \* analyze_processing_phases.py: one row of durations per run
    stats_df,           \* the summary rows, one per duration column
    major_phases,       \* the phases identify_major_phases returns
    merged_data,        \* trial5_parser.py: the records merge_data returns
    calib_df,           \* calibration scripts: the worker-mode runs loaded
    phase2_per_candidate, \* the per-candidate ratios computed, with their runs
    phase2_constant,    \* the Phase 2 constant the script reports
    walk,               \* directory scans: the files os.walk yields, in order
    scanned,            \* how many of them the loop has handled
    counts              \* the counts dict of the scan

vars == <<script, content, pc, all_matches, test_run_data, test_run_positions,
          timing_data, folder_data, warnings, raised, argv, exit_code, files,
          csv_call, csv_file, durations_df, stats_df, major_phases,
          merged_data, calib_df, phase2_per_candidate, phase2_constant, walk,
          scanned, counts>>

\* What analyze_processing_phases.py owns.
phaseVars == <<durations_df, stats_df, major_phases>>

\* What the calibration scripts own.
calibVars == <<calib_df, phase2_per_candidate, phase2_constant>>

\* What the directory-scanning scripts own.
scanVars == <<walk, scanned, counts>>

\* What the merge, calibration and directory-scanning scripts own.
toolVars == <<merged_data, calibVars, scanVars>>

\* What main() and write_csv own; the extractors leave it alone.
mainVars == <<argv, exit_code, files, csv_call, csv_file>>


\* ------------------------------------------------ timing: shared operators
\* re.finditer(pattern, content) for the pattern of one file name: one tuple
\* (match.start(), event_type, int(timing), source) per matching line, in
\* document order.  int() of a \d+ capture is the number the digits denote.
RECURSIVE FinditerFrom(_, _, _)
FinditerFrom(lines, tag, i) ==
    IF i > Len(lines) THEN <<>>
    ELSE (IF lines[i].tag = tag
          THEN <<[pos |-> i, event_type |-> lines[i].name,
                  timing |-> lines[i].val, source |-> tag]>>
          ELSE <<>>) \o FinditerFrom(lines, tag, i + 1)

Finditer(lines, tag) == FinditerFrom(lines, tag, 1)

\* list.sort(key=lambda x: x[0]): stable, ascending in the match offset.
RECURSIVE InsertByPos(_, _)
InsertByPos(sorted, m) ==
    IF sorted = <<>> THEN <<m>>
    ELSE IF Head(sorted).pos <= m.pos
         THEN <<Head(sorted)>> \o InsertByPos(Tail(sorted), m)
         ELSE <<m>> \o sorted

RECURSIVE SortFrom(_, _, _)
SortFrom(ms, i, acc) ==
    IF i > Len(ms) THEN acc ELSE SortFrom(ms, i + 1, InsertByPos(acc, ms[i]))

UnsortedMatches(ms) == ms

SortByPosition(ms) == SortFrom(ms, 1, <<>>)

\* main matches appended first, then worker matches, then the sort.
MergedMatches(lines) ==
    SortByPosition(Finditer(lines, "main") \o Finditer(lines, "worker"))

\* if event_type == 'PROCESSING_START': current_test_run += 1
NextTestRunEveryEvent(current_test_run, event_type) == current_test_run + 1

NextTestRun(current_test_run, event_type) ==
    IF event_type = "PROCESSING_START" THEN current_test_run + 1 ELSE current_test_run

\* test_run_data[current_test_run][event_type] = timing, on a defaultdict(dict)
StoreEventKeepFirst(data, run, event_type, timing) ==
    LET old == IF run \in DOMAIN data THEN data[run] ELSE EmptyDict
    IN  DictSet(data, run,
                IF event_type \in DOMAIN old THEN old ELSE DictSet(old, event_type, timing))

StoreEvent(data, run, event_type, timing) ==
    LET old == IF run \in DOMAIN data THEN data[run] ELSE EmptyDict
    IN  DictSet(data, run, DictSet(old, event_type, timing))

\* The grouping loop without the test that the run index is positive.
RECURSIVE GroupLoopUnguarded(_, _, _, _, _)
GroupLoopUnguarded(ms, i, current_test_run, data, positions) ==
    IF i > Len(ms) THEN [data |-> data, positions |-> positions]
    ELSE LET m == ms[i]
             run == NextTestRun(current_test_run, m.event_type)
             positions2 == IF m.event_type = "PROCESSING_START"
                           THEN DictSet(positions, run, m.pos)
                           ELSE positions
             data2 == StoreEvent(data, run, m.event_type, m.timing)
         IN  GroupLoopUnguarded(ms, i + 1, run, data2, positions2)

\* plans/parse_console_log.py and improved_parser_json.py: the grouping loop.
\* The run index starts at 0 and an event is stored only once it is positive.
RECURSIVE GroupLoop(_, _, _, _, _)
GroupLoop(ms, i, current_test_run, data, positions) ==
    IF i > Len(ms) THEN [data |-> data, positions |-> positions]
    ELSE LET m == ms[i]
             run == NextTestRun(current_test_run, m.event_type)
             positions2 == IF m.event_type = "PROCESSING_START"
                           THEN DictSet(positions, run, m.pos)
                           ELSE positions
             data2 == IF run > 0
                      THEN StoreEvent(data, run, m.event_type, m.timing)
                      ELSE data
         IN  GroupLoop(ms, i + 1, run, data2, positions2)

\* trial5_parser.py: the same loop over the processingTimer.js matches only,
\* without recorded positions.
RECURSIVE T5GroupLoop(_, _, _, _)
T5GroupLoop(ms, i, current_run, data) ==
    IF i > Len(ms) THEN data
    ELSE LET m == ms[i]
             run == NextTestRun(current_run, m.event_type)
             data2 == IF run > 0
                      THEN StoreEvent(data, run, m.event_type, m.timing)
                      ELSE data
         IN  T5GroupLoop(ms, i + 1, run, data2)

\* speed_tests/parse_console_log.py: the loop stores every event, whatever the
\* run index; the caller starts it at 1.
RECURSIVE OldGroupLoop(_, _, _, _)
OldGroupLoop(ms, i, current_test_run, data) ==
    IF i > Len(ms) THEN data
    ELSE LET m == ms[i]
             run == NextTestRun(current_test_run, m.event_type)
         IN  OldGroupLoop(ms, i + 1, run, StoreEvent(data, run, m.event_type, m.timing))

\* sorted(d.keys())
RECURSIVE SortedSeq(_)
SortedSeq(S) ==
    IF S = {} THEN <<>>
    ELSE LET m == CHOOSE x \in S : \A y \in S : x <= y
         IN  <<m>> \o SortedSeq(S \ {m})

\* data.get(key) and data.get(key, default)
DataGetOr(data, key, default) ==
    IF key \in DOMAIN data THEN PyInt(data[key]) ELSE default

DataGetZero(data, key) == DataGetOr(data, key, PyInt(0))

DataGet(data, key) == DataGetOr(data, key, None)


\* ------------------------------------------------- timing: execution mode
\* The text of a log line: the file name with its line number and a blank,
\* the event name, ": ", one digit and the newline; the restart message and
\* a newline; or val characters of text that no pattern matches.
FilePrefix(tag) ==
    CASE tag = "main" -> "processingTimer.js:1 "
      [] tag = "worker" -> "fileHashWorker.js:1 "
      [] OTHER -> "app.js:1 "

LineLen(line) ==
    CASE line.tag = "filler" -> line.val
      [] line.tag = "restart" -> Len(line.name) + 1
      [] OTHER -> Len(FilePrefix(line.tag)) + Len(line.name) + 4

\* The character offset of line i; a match that starts a line has this
\* offset as its match.start().
RECURSIVE Offset(_, _)
Offset(lines, i) ==
    IF i <= 1 THEN 0 ELSE Offset(lines, i - 1) + LineLen(lines[i - 1])

\* worker_patterns: the number of characters one of the three patterns
\* matches at the start of the line, 0 when none matches.
WorkerPatternNames == {"SIZE_ANALYSIS_COMPLETE", "HASH_CALCULATION_COMPLETE"}

WorkerPatternLen(line) ==
    CASE line.tag = "worker" /\ line.name \in WorkerPatternNames ->
             Len(FilePrefix("worker")) + Len(line.name)
      [] line.tag = "restart" -> Len(line.name)
      [] OTHER -> 0

WindowSize == 5000

\* A search over everything that follows the start of the run.
DetectInRestOfLog(lines, test_run_start_pos) ==
    \E j \in 1..Len(lines) :
        /\ WorkerPatternLen(lines[j]) > 0
        /\ Offset(lines, j) >= Offset(lines, test_run_start_pos)

\* detect_execution_mode: re.search of each pattern in
\* content[test_run_start_pos : test_run_start_pos + 5000]; a pattern matches
\* in the slice when its whole text lies inside it.
DetectExecutionMode(lines, test_run_start_pos) ==
    LET window_start == Offset(lines, test_run_start_pos)
        window_end == window_start + WindowSize
    IN  \E j \in 1..Len(lines) :
            /\ WorkerPatternLen(lines[j]) > 0
            /\ Offset(lines, j) >= window_start
            /\ Offset(lines, j) + WorkerPatternLen(lines[j]) <= window_end


\* ------------------------------------------------------------ timing: rows
\* A row builder that keeps a duration only when its end is not before its
\* start.
PlansRowOrdered(test_run, data, is_worker_mode) ==
    LET processing_start == DataGetOr(data, "PROCESSING_START", PyInt(0))
        deduplication_start == DataGet(data, "DEDUPLICATION_START")
        ui_update_start == DataGet(data, "UI_UPDATE_START")
        all_files_displayed == DataGet(data, "ALL_FILES_DISPLAYED")
        Span(end, start) ==
            IF end # None /\ start # None /\ end.v >= start.v
            THEN PyInt(end.v - start.v) ELSE None
    IN  [TestRun |-> test_run,
         isWorkerMode |-> is_worker_mode,
         totalDurationMs |-> Span(all_files_displayed, processing_start),
         phase1FileAnalysisMs |-> Span(deduplication_start, processing_start),
         phase2HashProcessingMs |-> Span(ui_update_start, deduplication_start),
         phase3UIRenderingMs |-> Span(all_files_displayed, ui_update_start),
         PROCESSING_START |-> processing_start,
         DEDUPLICATION_START |-> deduplication_start,
         UI_UPDATE_START |-> ui_update_start,
         ALL_FILES_DISPLAYED |-> all_files_displayed]

\* plans/parse_console_log.py: one row per run, durations only when the
\* timestamps they are tested for are present.
PlansRow(test_run, data, is_worker_mode) ==
    LET processing_start == DataGetOr(data, "PROCESSING_START", PyInt(0))
        deduplication_start == DataGet(data, "DEDUPLICATION_START")
        ui_update_start == DataGet(data, "UI_UPDATE_START")
        all_files_displayed == DataGet(data, "ALL_FILES_DISPLAYED")
        phase1_duration ==
            IF deduplication_start # None
            THEN PyInt(deduplication_start.v - processing_start.v) ELSE None
        phase2_duration ==
            IF ui_update_start # None /\ deduplication_start # None
            THEN PyInt(ui_update_start.v - deduplication_start.v) ELSE None
        phase3_duration ==
            IF all_files_displayed # None /\ ui_update_start # None
            THEN PyInt(all_files_displayed.v - ui_update_start.v) ELSE None
        total_duration ==
            IF all_files_displayed # None
            THEN PyInt(all_files_displayed.v - processing_start.v) ELSE None
    IN  [TestRun |-> test_run,
         isWorkerMode |-> is_worker_mode,
         totalDurationMs |-> total_duration,
         phase1FileAnalysisMs |-> phase1_duration,
         phase2HashProcessingMs |-> phase2_duration,
         phase3UIRenderingMs |-> phase3_duration,
         PROCESSING_START |-> processing_start,
         DEDUPLICATION_START |-> deduplication_start,
         UI_UPDATE_START |-> ui_update_start,
         ALL_FILES_DISPLAYED |-> all_files_displayed]

\* The total measured from DEDUPLICATION_START instead of PROCESSING_START.
JsonRowTotalFromDedup(test_run, data) ==
    LET processing_start == DataGetOr(data, "PROCESSING_START", PyInt(0))
        deduplication_start == DataGet(data, "DEDUPLICATION_START")
        ui_update_start == DataGet(data, "UI_UPDATE_START")
        all_files_displayed == DataGet(data, "ALL_FILES_DISPLAYED")
    IN  [TestRun |-> test_run,
         totalDurationMs |->
            IF all_files_displayed # None /\ deduplication_start # None
            THEN PyInt(all_files_displayed.v - deduplication_start.v) ELSE None,
         phase1FileAnalysisMs |->
            IF deduplication_start # None
            THEN PyInt(deduplication_start.v - processing_start.v) ELSE None,
         phase2HashProcessingMs |->
            IF ui_update_start # None /\ deduplication_start # None
            THEN PyInt(ui_update_start.v - deduplication_start.v) ELSE None,
         phase3UIRenderingMs |->
            IF all_files_displayed # None /\ ui_update_start # None
            THEN PyInt(all_files_displayed.v - ui_update_start.v) ELSE None,
         PROCESSING_START |-> processing_start,
         DEDUPLICATION_START |-> deduplication_start,
         UI_UPDATE_START |-> ui_update_start,
         ALL_FILES_DISPLAYED |-> all_files_displayed]

\* improved_parser_json.py: the same derivation as conditional expressions.
JsonRow(test_run, data) ==
    LET processing_start == DataGetOr(data, "PROCESSING_START", PyInt(0))
        deduplication_start == DataGet(data, "DEDUPLICATION_START")
        ui_update_start == DataGet(data, "UI_UPDATE_START")
        all_files_displayed == DataGet(data, "ALL_FILES_DISPLAYED")
    IN  [TestRun |-> test_run,
         totalDurationMs |->
            IF all_files_displayed # None
            THEN PyInt(all_files_displayed.v - processing_start.v) ELSE None,
         phase1FileAnalysisMs |->
            IF deduplication_start # None
            THEN PyInt(deduplication_start.v - processing_start.v) ELSE None,
         phase2HashProcessingMs |->
            IF ui_update_start # None /\ deduplication_start # None
            THEN PyInt(ui_update_start.v - deduplication_start.v) ELSE None,
         phase3UIRenderingMs |->
            IF all_files_displayed # None /\ ui_update_start # None
            THEN PyInt(all_files_displayed.v - ui_update_start.v) ELSE None,
         PROCESSING_START |-> processing_start,
         DEDUPLICATION_START |-> deduplication_start,
         UI_UPDATE_START |-> ui_update_start,
         ALL_FILES_DISPLAYED |-> all_files_displayed]

\* The differences taken without comparing the two timestamps first.
T5RowUnchecked(run_num, data) ==
    LET start == DataGetOr(data, "PROCESSING_START", PyInt(0)).v
        dedup_start == DataGetOr(data, "DEDUPLICATION_START", PyInt(0)).v
        ui_start == DataGetOr(data, "UI_UPDATE_START", PyInt(0)).v
        end == DataGetOr(data, "ALL_FILES_DISPLAYED", PyInt(0)).v
    IN  [TestRun |-> run_num,
         totalDurationMs |-> PyInt(end - start),
         phase1FileAnalysisMs |-> PyInt(dedup_start - start),
         phase2HashProcessingMs |-> PyInt(ui_start - dedup_start),
         phase3UIRenderingMs |-> PyInt(end - ui_start),
         PROCESSING_START |-> PyInt(start),
         DEDUPLICATION_START |-> PyInt(dedup_start),
         UI_UPDATE_START |-> PyInt(ui_start),
         ALL_FILES_DISPLAYED |-> PyInt(end)]

\* trial5_parser.py: every timestamp is read with the default 0, and a
\* duration is kept when its end is not smaller than its start.
T5Row(run_num, data) ==
    LET start == DataGetOr(data, "PROCESSING_START", PyInt(0)).v
        dedup_start == DataGetOr(data, "DEDUPLICATION_START", PyInt(0)).v
        ui_start == DataGetOr(data, "UI_UPDATE_START", PyInt(0)).v
        end == DataGetOr(data, "ALL_FILES_DISPLAYED", PyInt(0)).v
        phase1 == IF dedup_start >= start THEN PyInt(dedup_start - start) ELSE None
        phase2 == IF ui_start >= dedup_start THEN PyInt(ui_start - dedup_start) ELSE None
        phase3 == IF end >= ui_start THEN PyInt(end - ui_start) ELSE None
        total == IF end >= start THEN PyInt(end - start) ELSE None
    IN  [TestRun |-> run_num,
         totalDurationMs |-> total,
         phase1FileAnalysisMs |-> phase1,
         phase2HashProcessingMs |-> phase2,
         phase3UIRenderingMs |-> phase3,
         PROCESSING_START |-> PyInt(start),
         DEDUPLICATION_START |-> PyInt(dedup_start),
         UI_UPDATE_START |-> PyInt(ui_start),
         ALL_FILES_DISPLAYED |-> PyInt(end)]

\* speed_tests/parse_console_log.py: the raw timestamps, '' where absent (of
\* the sixteen expected columns, the four this model's logs can hold).
OldRow(test_run, data) ==
    [TestRun |-> test_run,
     PROCESSING_START |-> DataGetOr(data, "PROCESSING_START", EmptyStr),
     DEDUPLICATION_START |-> DataGetOr(data, "DEDUPLICATION_START", EmptyStr),
     UI_UPDATE_START |-> DataGetOr(data, "UI_UPDATE_START", EmptyStr),
     ALL_FILES_DISPLAYED |-> DataGetOr(data, "ALL_FILES_DISPLAYED", EmptyStr)]

\* for test_run in sorted(test_run_data.keys()): timing_data.append(row)
PlansRows(lines, data, positions) ==
    LET keys == SortedSeq(DOMAIN data)
    IN  [i \in 1..Len(keys) |->
            LET start_pos == IF keys[i] \in DOMAIN positions
                             THEN positions[keys[i]] ELSE 0
            IN  PlansRow(keys[i], data[keys[i]],
                         DetectExecutionMode(lines, start_pos))]

JsonRows(data) ==
    LET keys == SortedSeq(DOMAIN data)
    IN  [i \in 1..Len(keys) |-> JsonRow(keys[i], data[keys[i]])]

T5Rows(data) ==
    LET keys == SortedSeq(DOMAIN data)
    IN  [i \in 1..Len(keys) |-> T5Row(keys[i], data[keys[i]])]

OldRows(data) ==
    LET keys == SortedSeq(DOMAIN data)
    IN  [i \in 1..Len(keys) |-> OldRow(keys[i], data[keys[i]])]


\* ------------------------------------------------- folder metrics: JSON form
\* What follows a "FOLDER_ANALYSIS_DATA: " marker, as the pattern ({.+?})
\* and json.loads see it:
\*   shape "object"  : a flat JSON object; the capture is the whole object;
\*   shape "nested"  : a JSON object holding a '}' before its last character
\*                     (a nested object, a '}' in a string); the non-greedy
\*                     capture stops at that first '}';
\*   shape "garbage" : braces around text that is not JSON.
\* A field of an object is absent, a number, a string or null; the logs hold
\* every kind for totalSizeMB, a string for totalFiles and a null for
\* avgDirectoryDepth as their non-numeric value.
JsonFields == {"totalFiles", "totalSizeMB", "avgDirectoryDepth"}

JsonBlob ==
    [shape : {"object"}, totalFiles : {"absent", "num", "str"},
     totalSizeMB : {"absent", "num", "str", "null"},
     avgDirectoryDepth : {"absent", "num", "null"}]
        \cup [shape : {"nested", "garbage"}, totalFiles : {"absent"},
              totalSizeMB : {"absent"}, avgDirectoryDepth : {"absent"}]

JsonLogs == UNION {[1..n -> JsonBlob] : n \in 0..MaxMarkers}

\* json.loads(match): the dict of the fields present, or JSONDecodeError.
JsonDecodes(blob) == blob.shape = "object"

JsonLoads(blob) ==
    LET present == {f \in JsonFields : blob[f] # "absent"}
    IN  [f \in present |-> blob[f]]

\* data.get(field, 0) inside an f-string with the format spec .1f: a number
\* (or the default 0) formats; a string raises ValueError, None raises TypeError.
FormatFloat(data, field) ==
    IF field \notin DOMAIN data THEN "ok"
    ELSE CASE data[field] = "num" -> "ok"
           [] data[field] = "str" -> "ValueError"
           [] data[field] = "null" -> "TypeError"

\* The first exception raised while the fields are formatted left to right.
RECURSIVE FirstError(_, _)
FirstError(data, fields) ==
    IF fields = <<>> THEN "ok"
    ELSE IF FormatFloat(data, Head(fields)) # "ok"
         THEN FormatFloat(data, Head(fields))
         ELSE FirstError(data, Tail(fields))

\* trial5_parser.py, the folder pass: the record is appended before the
\* summary line is printed; only json.JSONDecodeError is caught.
\* {'TestRun': i, **data}: a "TestRun" key of the JSON object replaces i.
T5FolderRecord(i, data) ==
    [TestRun |-> IF "TestRun" \in DOMAIN data THEN data["TestRun"].v ELSE i,
     marker |-> i,
     data |-> data]

RECURSIVE T5FolderLoop(_, _, _, _)
T5FolderLoop(folder_matches, i, records, printed) ==
    IF i > Len(folder_matches)
    THEN [folder_data |-> records, warnings |-> printed, raised |-> "none"]
    ELSE IF ~JsonDecodes(folder_matches[i])
         THEN T5FolderLoop(folder_matches, i + 1, records,
                           Append(printed, [marker |-> i, kind |-> "JSONDecodeError"]))
         ELSE LET data == JsonLoads(folder_matches[i])
                  records2 == Append(records, T5FolderRecord(i, data))
                  err == FirstError(data, <<"totalSizeMB", "avgDirectoryDepth">>)
              IN  IF err # "ok"
                  THEN [folder_data |-> records2, warnings |-> printed, raised |-> err]
                  ELSE T5FolderLoop(folder_matches, i + 1, records2, printed)


\* ---------------------------------------------------------- timing: actions
TimingScripts == {"plans_timing", "json_timing", "trial5", "old_timing"}

Unused ==
    /\ all_matches = <<>>
    /\ test_run_data = EmptyDict
    /\ test_run_positions = EmptyDict
    /\ timing_data = <<>>
    /\ folder_data = <<>>
    /\ warnings = <<>>
    /\ raised = "none"

\* No phase analysis is running.
UnusedPhases ==
    /\ durations_df = <<>>
    /\ stats_df = <<>>
    /\ major_phases = <<>>

\* No merge, calibration or directory scan is running.
UnusedCalib ==
    /\ calib_df = <<>>
    /\ phase2_per_candidate = <<>>
    /\ phase2_constant = None

UnusedScan ==
    /\ walk = <<>>
    /\ scanned = 0
    /\ counts = EmptyDict

UnusedTools ==
    /\ merged_data = <<>>
    /\ UnusedCalib
    /\ UnusedScan

\* An extractor called on its own: no process, no file written.
UnusedMain ==
    /\ argv = None
    /\ exit_code = None
    /\ files = {}
    /\ csv_call = None
    /\ csv_file = None

InitTiming ==
    /\ script \in TimingScripts
    /\ content \in [lines : TimingLogs, markers : {<<>>}]
    /\ pc = "start"
    /\ Unused
    /\ UnusedMain
    /\ UnusedPhases
    /\ UnusedTools

\* plans/parse_console_log.py parse_timing_data
PlansCollectMatches ==
    /\ script = "plans_timing" /\ pc = "start"
    /\ all_matches' = MergedMatches(content.lines)
    /\ pc' = "group"
    /\ UNCHANGED <<toolVars, phaseVars, mainVars, script, content, test_run_data,
                   test_run_positions, timing_data, folder_data, warnings, raised>>

PlansGroupTestRuns ==
    /\ script = "plans_timing" /\ pc = "group"
    /\ LET r == GroupLoop(all_matches, 1, 0, EmptyDict, EmptyDict)
       IN  /\ test_run_data' = r.data
           /\ test_run_positions' = r.positions
    /\ pc' = "rows"
    /\ UNCHANGED <<toolVars, phaseVars, mainVars, script, content, all_matches, timing_data,
                   folder_data, warnings, raised>>

PlansBuildRows ==
    /\ script = "plans_timing" /\ pc = "rows"
    /\ timing_data' = PlansRows(content.lines, test_run_data, test_run_positions)
    /\ pc' = "done"
    /\ UNCHANGED <<toolVars, phaseVars, mainVars, script, content, all_matches,
                   test_run_data,
                   test_run_positions, folder_data, warnings, raised>>

\* improved_parser_json.py parse_timing_data
JsonCollectMatches ==
    /\ script = "json_timing" /\ pc = "start"
    /\ all_matches' = MergedMatches(content.lines)
    /\ pc' = "group"
    /\ UNCHANGED <<toolVars, phaseVars, mainVars, script, content, test_run_data,
                   test_run_positions, timing_data, folder_data, warnings, raised>>

JsonGroupTestRuns ==
    /\ script = "json_timing" /\ pc = "group"
    /\ LET r == GroupLoop(all_matches, 1, 0, EmptyDict, EmptyDict)
       IN  /\ test_run_data' = r.data
           /\ test_run_positions' = r.positions
    /\ pc' = "rows"
    /\ UNCHANGED <<toolVars, phaseVars, mainVars, script, content, all_matches, timing_data,
                   folder_data, warnings, raised>>

JsonBuildRows ==
    /\ script = "json_timing" /\ pc = "rows"
    /\ timing_data' = JsonRows(test_run_data)
    /\ pc' = "done"
    /\ UNCHANGED <<toolVars, phaseVars, mainVars, script, content, all_matches,
                   test_run_data,
                   test_run_positions, folder_data, warnings, raised>>

\* trial5_parser.py parse_trial5_data: the folder pass, then the timing pass.
\* An exception of the folder pass leaves the function: no timing pass runs.
T5FolderPass ==
    /\ script = "trial5" /\ pc = "start"
    /\ LET r == T5FolderLoop(content.markers, 1, <<>>, <<>>)
       IN  /\ folder_data' = r.folder_data
           /\ warnings' = r.warnings
           /\ raised' = r.raised
           /\ pc' = IF r.raised = "none" THEN "timing" ELSE "raised"
    /\ UNCHANGED <<toolVars, phaseVars, mainVars, script, content, all_matches,
                   test_run_data,
                   test_run_positions, timing_data>>

\* all_matches holds timing_matches here: the processingTimer.js matches.
T5GroupTiming ==
    /\ script = "trial5" /\ pc = "timing"
    /\ all_matches' = Finditer(content.lines, "main")
    /\ test_run_data' = T5GroupLoop(all_matches', 1, 0, EmptyDict)
    /\ pc' = "rows"
    /\ UNCHANGED <<toolVars, phaseVars, mainVars, script, content, test_run_positions,
                   timing_data,
                   folder_data, warnings, raised>>

T5BuildRows ==
    /\ script = "trial5" /\ pc = "rows"
    /\ timing_data' = T5Rows(test_run_data)
    /\ pc' = "done"
    /\ UNCHANGED <<toolVars, phaseVars, mainVars, script, content, all_matches,
                   test_run_data,
                   test_run_positions, folder_data, warnings, raised>>

\* speed_tests/parse_console_log.py parse_timing_data; all_matches holds
\* matches: the processingTimer.js matches.  current_test_run = 1 at the start.
OldGroupTiming ==
    /\ script = "old_timing" /\ pc = "start"
    /\ all_matches' = Finditer(content.lines, "main")
    /\ test_run_data' = OldGroupLoop(all_matches', 1, 1, EmptyDict)
    /\ pc' = "rows"
    /\ UNCHANGED <<toolVars, phaseVars, mainVars, script, content, test_run_positions,
                   timing_data,
                   folder_data, warnings, raised>>

OldBuildRows ==
    /\ script = "old_timing" /\ pc = "rows"
    /\ timing_data' = OldRows(test_run_data)
    /\ pc' = "done"
    /\ UNCHANGED <<toolVars, phaseVars, mainVars, script, content, all_matches,
                   test_run_data,
                   test_run_positions, folder_data, warnings, raised>>

NextTiming ==
    \/ PlansCollectMatches
    \/ PlansGroupTestRuns
    \/ PlansBuildRows
    \/ JsonCollectMatches
    \/ JsonGroupTestRuns
    \/ JsonBuildRows
    \/ T5FolderPass
    \/ T5GroupTiming
    \/ T5BuildRows
    \/ OldGroupTiming
    \/ OldBuildRows

SpecTiming == InitTiming /\ [][NextTiming]_vars


\* ------------------------------------------------ timing: what the log says
\* The lines a script's patterns match: both file names for the merged
\* extractors, processingTimer.js alone for the two others.
SeenTags ==
    IF script \in {"plans_timing", "json_timing"} THEN {"main", "worker"} ELSE {"main"}

Seen(i) == content.lines[i].tag \in SeenTags

IsStart(i) == Seen(i) /\ content.lines[i].name = "PROCESSING_START"

\* The number of PROCESSING_START events at or before line i: the run of line i.
StartsUpTo(i) == Cardinality({j \in 1..i : IsStart(j)})

NumStarts == StartsUpTo(Len(content.lines))

\* The events from the k-th PROCESSING_START up to the next one.
SegmentLines(k) == {i \in 1..Len(content.lines) : Seen(i) /\ StartsUpTo(i) = k}

StartLine(k) == CHOOSE i \in SegmentLines(k) : IsStart(i)

SetMax(S) == CHOOSE x \in S : \A y \in S : y <= x

\* (duration column, end event, start event)
PhaseDefs ==
    {<<"phase1FileAnalysisMs", "DEDUPLICATION_START", "PROCESSING_START">>,
     <<"phase2HashProcessingMs", "UI_UPDATE_START", "DEDUPLICATION_START">>,
     <<"phase3UIRenderingMs", "ALL_FILES_DISPLAYED", "UI_UPDATE_START">>,
     <<"totalDurationMs", "ALL_FILES_DISPLAYED", "PROCESSING_START">>}

\* ------------------------------------------------------------ timing: claims
\* C1: in plans/parse_console_log.py, improved_parser_json.py and the timing
\* pass of trial5_parser.py, a log with N PROCESSING_START events yields exactly
\* N rows numbered 1..N in ascending order, and run k holds exactly the events
\* between the k-th PROCESSING_START (inclusive) and the next one (exclusive),
\* each run keeping its own PROCESSING_START value.
C1_RunsPartitionEvents ==
    (pc = "done" /\ script \in {"plans_timing", "json_timing", "trial5"}) =>
        /\ Len(timing_data) = NumStarts
        /\ DOMAIN test_run_data = 1..NumStarts
        /\ \A k \in 1..NumStarts :
            /\ timing_data[k].TestRun = k
            /\ DOMAIN test_run_data[k] =
                   {content.lines[i].name : i \in SegmentLines(k)}
            /\ \A n \in DOMAIN test_run_data[k] :
                   \E i \in SegmentLines(k) :
                       /\ content.lines[i].name = n
                       /\ content.lines[i].val = test_run_data[k][n]
            /\ timing_data[k].PROCESSING_START = PyInt(content.lines[StartLine(k)].val)

\* Two runs, each logging PROCESSING_START with its own value, the first one
\* holding a worker-tagged event as well.
C1_Witness ==
    /\ pc = "done" /\ script = "plans_timing"
    /\ NumStarts = 2
    /\ timing_data[1].PROCESSING_START # timing_data[2].PROCESSING_START
    /\ \E i \in SegmentLines(1) : content.lines[i].tag = "worker"

\* C2: in speed_tests/parse_console_log.py the run opened by the k-th
\* PROCESSING_START is output with 'Test Run #' = k, and a log with N
\* occurrences yields exactly N rows.
C2_OldRunsNumberedFromOne ==
    (pc = "done" /\ script = "old_timing") =>
        /\ Len(timing_data) = NumStarts
        /\ \A k \in 1..NumStarts :
               \E r \in 1..Len(timing_data) :
                   /\ timing_data[r].TestRun = k
                   /\ timing_data[r].PROCESSING_START =
                          PyInt(content.lines[StartLine(k)].val)

\* C3: in every timing extractor an event logged before the first
\* PROCESSING_START is discarded: every stored value comes from an event at or
\* after the first PROCESSING_START, and a log without PROCESSING_START yields
\* no row.
C3_EventsBeforeFirstStartDiscarded ==
    (pc = "done" /\ script \in TimingScripts) =>
        /\ (NumStarts = 0 => timing_data = <<>>)
        /\ \A k \in DOMAIN test_run_data :
               \A n \in DOMAIN test_run_data[k] :
                   \E i \in 1..Len(content.lines) :
                       /\ Seen(i) /\ StartsUpTo(i) >= 1
                       /\ content.lines[i].name = n
                       /\ content.lines[i].val = test_run_data[k][n]

\* C4: in plans/parse_console_log.py and improved_parser_json.py each of the
\* four durations equals end minus start when both endpoint timestamps are
\* present in the run, and is None when either is absent.
C4_DurationIffBothEndpoints ==
    (pc = "done" /\ script \in {"plans_timing", "json_timing"}) =>
        \A r \in 1..Len(timing_data) :
            LET row == timing_data[r]
                data == test_run_data[row.TestRun]
            IN  \A d \in PhaseDefs :
                    row[d[1]] =
                        IF d[2] \in DOMAIN data /\ d[3] \in DOMAIN data
                        THEN PyInt(data[d[2]] - data[d[3]])
                        ELSE None

\* A run with DEDUPLICATION_START logged as 0 and no UI_UPDATE_START: phase 1
\* is a number, phase 2 and phase 3 are None.
C4_Witness ==
    /\ pc = "done" /\ script \in {"plans_timing", "json_timing"}
    /\ \E r \in 1..Len(timing_data) :
        /\ timing_data[r].DEDUPLICATION_START = PyInt(0)
        /\ timing_data[r].phase1FileAnalysisMs # None
        /\ timing_data[r].phase2HashProcessingMs = None
        /\ timing_data[r].totalDurationMs = None

\* C5: in trial5_parser.py a duration is None whenever one of its two
\* endpoint timestamps is absent from the run, and an absent
\* DEDUPLICATION_START, UI_UPDATE_START or ALL_FILES_DISPLAYED is never
\* reported as 0.
C5_T5AbsentNeverZero ==
    (pc = "done" /\ script = "trial5") =>
        \A r \in 1..Len(timing_data) :
            LET row == timing_data[r]
                data == test_run_data[row.TestRun]
            IN  /\ \A d \in PhaseDefs :
                       (d[2] \notin DOMAIN data \/ d[3] \notin DOMAIN data)
                           => row[d[1]] = None
                /\ \A n \in EventNames \ {"PROCESSING_START"} :
                       n \notin DOMAIN data => row[n] # PyInt(0)

\* C6: within one run, the value kept for an event name is the value of its
\* occurrence with the greatest offset inside that run, whichever file name
\* logged it.
C6_LastWriteWins ==
    (pc \in {"rows", "done"} /\ script \in {"plans_timing", "json_timing"}) =>
        \A k \in DOMAIN test_run_data :
            \A n \in DOMAIN test_run_data[k] :
                LET occ == {i \in SegmentLines(k) : content.lines[i].name = n}
                IN  /\ occ # {}
                    /\ test_run_data[k][n] = content.lines[SetMax(occ)].val

\* A run logging the same event name twice, with different values, once from
\* each file name.
C6_Witness ==
    /\ pc = "done" /\ script \in {"plans_timing", "json_timing"}
    /\ \E k \in DOMAIN test_run_data :
           \E i, j \in SegmentLines(k) :
               /\ i < j
               /\ content.lines[i].name = content.lines[j].name
               /\ content.lines[i].val # content.lines[j].val
               /\ content.lines[i].tag # content.lines[j].tag

\* C7: the merged list holds every match of either pattern exactly once, in
\* strictly increasing offset, so a worker-tagged event belongs to the run of
\* the nearest preceding PROCESSING_START and to no run that starts after it.
C7_MergedListInOffsetOrder ==
    (pc # "start" /\ script \in {"plans_timing", "json_timing"}) =>
        LET matching == {i \in 1..Len(content.lines) :
                             content.lines[i].tag \in MatchedTags}
        IN  /\ Len(all_matches) = Cardinality(matching)
            /\ {all_matches[x].pos : x \in 1..Len(all_matches)} = matching
            /\ \A x \in 1..Len(all_matches) :
                   LET m == all_matches[x]
                   IN  /\ m.event_type = content.lines[m.pos].name
                       /\ m.timing = content.lines[m.pos].val
                       /\ m.source = content.lines[m.pos].tag
            /\ \A x \in 1..(Len(all_matches) - 1) :
                   all_matches[x].pos < all_matches[x + 1].pos
            /\ pc \in {"rows", "done"} =>
                   \A i \in matching :
                       content.lines[i].tag = "worker" =>
                           LET k == StartsUpTo(i)
                               n == content.lines[i].name
                           IN  /\ k >= 1 => n \in DOMAIN test_run_data[k]
                               /\ \A k2 \in DOMAIN test_run_data :
                                      (k2 # k /\ n \in DOMAIN test_run_data[k2]) =>
                                          \E j \in SegmentLines(k2) :
                                              content.lines[j].name = n

\* A worker match lying between two main matches, after a PROCESSING_START.
C7_Witness ==
    /\ pc = "done" /\ script \in {"plans_timing", "json_timing"}
    /\ Len(all_matches) = 3
    /\ all_matches[1].source = "main" /\ all_matches[1].event_type = "PROCESSING_START"
    /\ all_matches[2].source = "worker"
    /\ all_matches[3].source = "main" /\ all_matches[3].event_type = "PROCESSING_START"


\* ---------------------------------------- folder metrics: JSON form, actions
\* improved_parser_json.py parse_json_folder_analysis_data: every field is
\* read with data.get(field, default); the row is appended and test_run
\* raised before the summary line is printed; JSONDecodeError and any other
\* Exception are caught, each with its own warning.
JsonFolderRowByMarker(test_run, i, data) ==
    [TestRun |-> i, marker |-> i,
     data |-> [f \in JsonFields |-> IF f \in DOMAIN data THEN data[f] ELSE "default"]]

JsonFolderRow(test_run, i, data) ==
    [TestRun |-> test_run, marker |-> i,
     data |-> [f \in JsonFields |-> IF f \in DOMAIN data THEN data[f] ELSE "default"]]

RECURSIVE JsonFolderLoop(_, _, _, _, _)
JsonFolderLoop(matches, i, test_run, records, printed) ==
    IF i > Len(matches)
    THEN [folder_data |-> records, warnings |-> printed, raised |-> "none"]
    ELSE IF ~JsonDecodes(matches[i])
         THEN JsonFolderLoop(matches, i + 1, test_run, records,
                             Append(printed, [marker |-> i, kind |-> "JSONDecodeError"]))
         ELSE LET data == JsonLoads(matches[i])
                  records2 == Append(records, JsonFolderRow(test_run, i, data))
                  err == FirstError(data, <<"totalSizeMB">>)
              IN  JsonFolderLoop(matches, i + 1, test_run + 1, records2,
                                 IF err # "ok"
                                 THEN Append(printed, [marker |-> i, kind |-> err])
                                 ELSE printed)

\* ------------------------------------------ folder metrics: key:value form
\* What follows a "FOLDER_ANALYSIS_DATA (Modal Predictors): " marker, as the
\* field patterns see it: for each field the text its pattern captures, or
\* "absent" when the pattern finds nothing.  A count pattern (\d+) captures
\* digits only; a size pattern ([\d.]+) captures any run of digits and dots.
CountTexts == {"absent", "3"}

SizeTexts == {"absent", "1.5", "1.2.3", "."}

RegexBlob == [totalFiles : CountTexts, totalSizeMB : SizeTexts, avgDirectoryDepth : SizeTexts]

RegexLogs == UNION {[1..n -> RegexBlob] : n \in 0..MaxMarkers}

\* The fields in the order field_patterns lists them.
PlansFieldOrder == <<"totalFiles", "totalSizeMB", "avgDirectoryDepth">>

ImprovedFieldOrder == <<"totalFiles", "totalSizeMB", "avgDirectoryDepth">>

FloatFields == {"totalSizeMB", "avgDirectoryDepth"}

\* float(text) raises ValueError unless text is a number; int(text) of digits
\* never does.
FloatParses(text) == text \in {"1.5"}

\* The first field, in order, whose conversion raises; 0 when none does.
RECURSIVE FirstBadField(_, _, _)
FirstBadField(blob, order, i) ==
    IF i > Len(order) THEN 0
    ELSE IF order[i] \in FloatFields /\ blob[order[i]] # "absent"
            /\ ~FloatParses(blob[order[i]])
         THEN i
         ELSE FirstBadField(blob, order, i + 1)

\* plans/parse_console_log.py: float() for the four size fields, int() for
\* the others, and the integer 0 for every absent field.
PlansFieldValue(blob, field) ==
    IF blob[field] = "absent" THEN [t |-> "int", v |-> "0"]
    ELSE IF field \in FloatFields THEN [t |-> "float", v |-> blob[field]]
         ELSE [t |-> "int", v |-> blob[field]]

\* improved_parser.py: the same conversions, with 0.0 for an absent size field.
ImprovedFieldValue(blob, field) ==
    IF blob[field] = "absent"
    THEN (IF field \in FloatFields THEN [t |-> "float", v |-> "0.0"]
          ELSE [t |-> "int", v |-> "0"])
    ELSE IF field \in FloatFields THEN [t |-> "float", v |-> blob[field]]
         ELSE [t |-> "int", v |-> blob[field]]

\* plans/parse_console_log.py parse_folder_analysis_data: the whole body of
\* the loop is inside try / except Exception, which prints a warning.
RECURSIVE PlansFolderLoop(_, _, _, _, _)
PlansFolderLoop(matches, i, test_run, records, printed) ==
    IF i > Len(matches)
    THEN [folder_data |-> records, warnings |-> printed, raised |-> "none"]
    ELSE IF FirstBadField(matches[i], PlansFieldOrder, 1) # 0
         THEN PlansFolderLoop(matches, i + 1, test_run, records,
                              Append(printed, [marker |-> i, kind |-> "ValueError"]))
         ELSE PlansFolderLoop(matches, i + 1, test_run + 1,
                  Append(records,
                         [TestRun |-> test_run, marker |-> i,
                          data |-> [f \in DOMAIN matches[i] |->
                                        PlansFieldValue(matches[i], f)]]),
                  printed)

\* improved_parser.py extract_complete_folder_data: no try around the
\* conversions; a ValueError leaves the function.
RECURSIVE ImprovedFolderLoop(_, _, _, _)
ImprovedFolderLoop(matches, i, test_run, records) ==
    IF i > Len(matches)
    THEN [folder_data |-> records, warnings |-> <<>>, raised |-> "none"]
    ELSE IF FirstBadField(matches[i], ImprovedFieldOrder, 1) # 0
         THEN [folder_data |-> records, warnings |-> <<>>, raised |-> "ValueError"]
         ELSE ImprovedFolderLoop(matches, i + 1, test_run + 1,
                  Append(records,
                         [TestRun |-> test_run, marker |-> i,
                          data |-> [f \in DOMAIN matches[i] |->
                                        ImprovedFieldValue(matches[i], f)]]))

FolderScripts == {"json_folder", "trial5", "plans_folder", "improved_folder"}

InitFolder ==
    /\ \/ /\ script \in {"json_folder", "trial5"}
          /\ content \in [lines : {<<>>}, markers : JsonLogs]
       \/ /\ script \in {"plans_folder", "improved_folder"}
          /\ content \in [lines : {<<>>}, markers : RegexLogs]
    /\ pc = "start"
    /\ Unused
    /\ UnusedMain
    /\ UnusedPhases
    /\ UnusedTools

JsonFolderPass ==
    /\ script = "json_folder" /\ pc = "start"
    /\ LET r == JsonFolderLoop(content.markers, 1, 1, <<>>, <<>>)
       IN  /\ folder_data' = r.folder_data
           /\ warnings' = r.warnings
           /\ raised' = r.raised
    /\ pc' = "done"
    /\ UNCHANGED <<toolVars, phaseVars, mainVars, script, content, all_matches,
                   test_run_data,
                   test_run_positions, timing_data>>

PlansFolderPass ==
    /\ script = "plans_folder" /\ pc = "start"
    /\ LET r == PlansFolderLoop(content.markers, 1, 1, <<>>, <<>>)
       IN  /\ folder_data' = r.folder_data
           /\ warnings' = r.warnings
           /\ raised' = r.raised
    /\ pc' = "done"
    /\ UNCHANGED <<toolVars, phaseVars, mainVars, script, content, all_matches,
                   test_run_data,
                   test_run_positions, timing_data>>

ImprovedFolderPass ==
    /\ script = "improved_folder" /\ pc = "start"
    /\ LET r == ImprovedFolderLoop(content.markers, 1, 1, <<>>)
       IN  /\ folder_data' = r.folder_data
           /\ warnings' = r.warnings
           /\ raised' = r.raised
           /\ pc' = IF r.raised = "none" THEN "done" ELSE "raised"
    /\ UNCHANGED <<toolVars, phaseVars, mainVars, script, content, all_matches,
                   test_run_data,
                   test_run_positions, timing_data>>

NextFolder ==
    \/ JsonFolderPass
    \/ T5FolderPass
    \/ T5GroupTiming
    \/ T5BuildRows
    \/ PlansFolderPass
    \/ ImprovedFolderPass

SpecFolder == InitFolder /\ [][NextFolder]_vars


\* ------------------------------------------------ folder metrics: the log
NumMarkers == Len(content.markers)

\* Markers whose captured blob is not valid JSON.
MalformedMarkers == {i \in 1..NumMarkers : content.markers[i].shape # "object"}

\* Markers whose blob is a JSON object with a string or null where a number
\* is expected.
NonNumericMarkers ==
    {i \in 1..NumMarkers :
        /\ content.markers[i].shape = "object"
        /\ \E f \in JsonFields : content.markers[i][f] \in {"str", "null"}}

\* Markers of the key:value form with a size text that is not a number.
BadNumberMarkers ==
    {i \in 1..NumMarkers :
        \E f \in FloatFields : content.markers[i][f] \in {"1.2.3", "."}}

Recorded(i) == \E r \in 1..Len(folder_data) : folder_data[r].marker = i

WarningsFor(i) == {w \in 1..Len(warnings) : warnings[w].marker = i}

\* ---------------------------------------------------- folder metrics: claims
\* C8: parse_json_folder_analysis_data and the folder pass of
\* parse_trial5_data, on every log with M markers of which B carry a blob
\* that is not valid JSON, do not raise, print one warning per malformed blob,
\* go on with the following markers and return exactly M - B records.
C8_MalformedJsonSkippedWithWarning ==
    (script \in {"json_folder", "trial5"} /\ pc # "start") =>
        /\ raised = "none"
        /\ \A i \in MalformedMarkers : Cardinality(WarningsFor(i)) = 1 /\ ~Recorded(i)
        /\ \A i \in (1..NumMarkers) \ MalformedMarkers : Recorded(i)
        /\ Len(folder_data) = NumMarkers - Cardinality(MalformedMarkers)

\* C9: in the JSON folder extractors a marker whose blob is a JSON object
\* with a string or null for totalSizeMB, totalFiles or avgDirectoryDepth is
\* a per-record failure: the extractor does not raise, and for each marker
\* either a record is appended and no warning is printed, or a warning is
\* printed and no record is appended.
C9_NonNumericRecordOrWarning ==
    (script \in {"json_folder", "trial5"} /\ pc # "start") =>
        /\ raised = "none"
        /\ \A i \in 1..NumMarkers : Recorded(i) # (WarningsFor(i) # {})

\* C10: in parse_folder_analysis_data (plans/parse_console_log.py) and
\* extract_complete_folder_data (improved_parser.py) a marker whose size text
\* matches the digits-and-dots pattern but is no number never raises out of
\* the extractor: that record is skipped and every other marker is processed.
C10_BadNumberSkippedNotRaised ==
    (script \in {"plans_folder", "improved_folder"} /\ pc # "start") =>
        /\ raised = "none"
        /\ \A i \in BadNumberMarkers : ~Recorded(i)
        /\ \A i \in (1..NumMarkers) \ BadNumberMarkers : Recorded(i)

\* C11: in parse_json_folder_analysis_data, parse_folder_analysis_data and the
\* folder pass of parse_trial5_data the record numbered k is the one taken
\* from the k-th marker of the log, also when earlier markers were skipped.
C11_RecordNumberIsMarkerOrdinal ==
    (script \in {"json_folder", "plans_folder", "trial5"} /\ pc # "start") =>
        \A r \in 1..Len(folder_data) : folder_data[r].TestRun = folder_data[r].marker

\* C12: parse_folder_analysis_data and parse_json_folder_analysis_data return
\* their records in the order of the markers they come from, at most one per
\* marker, and the i-th returned record carries the number i.
C12_RecordsInOrderNumberedFromOne ==
    (script \in {"json_folder", "plans_folder"} /\ pc = "done") =>
        /\ \A r \in 1..Len(folder_data) : folder_data[r].TestRun = r
        /\ \A r, q \in 1..Len(folder_data) :
               r < q => folder_data[r].marker < folder_data[q].marker
        /\ \A r \in 1..Len(folder_data) : folder_data[r].marker \in 1..NumMarkers

\* The first marker is skipped and the second yields the first record.
C12_Witness ==
    /\ script \in {"json_folder", "plans_folder"} /\ pc = "done"
    /\ NumMarkers = 2 /\ ~Recorded(1) /\ Len(folder_data) = 1
    /\ folder_data[1].marker = 2 /\ folder_data[1].TestRun = 1

\* C17: in parse_folder_analysis_data and extract_complete_folder_data the
\* type of every field of a record is fixed by the field's name, for present
\* and absent values alike: the size fields are floats (0.0 when absent), all
\* other fields are integers (0 when absent).
C17_FieldTypeFixedByName ==
    (script \in {"plans_folder", "improved_folder"} /\ pc # "start") =>
        \A r \in 1..Len(folder_data) : \A f \in DOMAIN folder_data[r].data :
            LET value == folder_data[r].data[f]
                absent == content.markers[folder_data[r].marker][f] = "absent"
            IN  IF f \in FloatFields
                THEN value.t = "float" /\ (absent => value.v = "0.0")
                ELSE value.t = "int" /\ (absent => value.v = "0")

\* Markers followed by a valid JSON object: flat, or holding a nested object
\* or a '}' inside a string.
WellFormedMarkers ==
    {i \in 1..NumMarkers : content.markers[i].shape \in {"object", "nested"}}

\* C13: parse_json_folder_analysis_data and the folder pass of
\* parse_trial5_data produce, for every marker followed by a valid JSON
\* object (a nested object or a '}' inside a string included), a record whose
\* values equal the source values for every field present in the object.
C13_WellFormedBlobYieldsEqualRecord ==
    (script \in {"json_folder", "trial5"} /\ pc # "start") =>
        \A i \in WellFormedMarkers :
            \E r \in 1..Len(folder_data) :
                /\ folder_data[r].marker = i
                /\ \A f \in JsonFields :
                       content.markers[i][f] # "absent" =>
                           /\ f \in DOMAIN folder_data[r].data
                           /\ folder_data[r].data[f] = content.markers[i][f]

\* C19: parse_timing_data of plans/parse_console_log.py and of
\* improved_parser_json.py does not validate the order of the timestamps: a
\* run whose later-phase timestamp is smaller than the earlier-phase one still
\* gets its row, the duration between the two is negative, and nothing is
\* raised and no warning is printed.
C19_NoTimestampOrderValidation ==
    (pc = "done" /\ script \in {"plans_timing", "json_timing"}) =>
        /\ raised = "none" /\ warnings = <<>>
        /\ \A k \in DOMAIN test_run_data :
               \E r \in 1..Len(timing_data) : timing_data[r].TestRun = k
        /\ \A r \in 1..Len(timing_data) :
               LET row == timing_data[r]
                   data == test_run_data[row.TestRun]
               IN  \A d \in PhaseDefs :
                       (/\ d[2] \in DOMAIN data /\ d[3] \in DOMAIN data
                        /\ data[d[2]] < data[d[3]])
                           => /\ row[d[1]] = PyInt(data[d[2]] - data[d[3]])
                              /\ row[d[1]].v < 0

\* A run with PROCESSING_START logged as 2 and DEDUPLICATION_START as 0: the
\* row reports phase 1 as -2.
C19_Witness ==
    /\ pc = "done" /\ script \in {"plans_timing", "json_timing"}
    /\ \E r \in 1..Len(timing_data) :
        /\ timing_data[r].PROCESSING_START = PyInt(2)
        /\ timing_data[r].DEDUPLICATION_START = PyInt(0)
        /\ timing_data[r].phase1FileAnalysisMs = PyInt(0 - 2)


\* ------------------------------------------------ execution mode: the logs
\* Filler text that puts the line after it just inside or just outside the
\* window of a run boundary two lines earlier.
FillerLens == {4917, 4918}

\* Run boundaries from both files, the two worker events from
\* fileHashWorker.js, SIZE_ANALYSIS_COMPLETE from processingTimer.js (no
\* worker pattern names that file), the restart message, and filler.
WorkerLine ==
    [tag : {"main", "worker"}, name : {"PROCESSING_START"}, val : {0}]
        \cup [tag : {"worker"}, name : WorkerPatternNames, val : {0}]
        \cup {[tag |-> "main", name |-> "SIZE_ANALYSIS_COMPLETE", val |-> 0]}
        \cup {[tag |-> "restart",
                name |-> "Web Worker restart failed, falling back to main thread processing",
                val |-> 0]}
        \cup [tag : {"filler"}, name : {""}, val : FillerLens]

WorkerLogs == UNION {[1..n -> WorkerLine] : n \in 0..MaxLen}

InitWorker ==
    /\ script = "plans_timing"
    /\ content \in [lines : WorkerLogs, markers : {<<>>}]
    /\ pc = "start"
    /\ Unused
    /\ UnusedMain
    /\ UnusedPhases
    /\ UnusedTools

NextWorker ==
    \/ PlansCollectMatches
    \/ PlansGroupTestRuns
    \/ PlansBuildRows

SpecWorker == InitWorker /\ [][NextWorker]_vars

\* Lines holding text that one of the three worker patterns matches.
WorkerTextLines ==
    {j \in 1..Len(content.lines) :
        \/ /\ content.lines[j].tag = "worker"
           /\ content.lines[j].name \in
                  {"SIZE_ANALYSIS_COMPLETE", "HASH_CALCULATION_COMPLETE"}
        \/ content.lines[j].tag = "restart"}

\* The number of characters from the start of line i to the end of the
\* worker pattern text of line j.
RECURSIVE CharsUpToPattern(_, _)
CharsUpToPattern(i, j) ==
    IF i = j THEN WorkerPatternLen(content.lines[j])
    ELSE LineLen(content.lines[i]) + CharsUpToPattern(i + 1, j)

\* C18: in plans/parse_console_log.py isWorkerMode of run k is true exactly
\* when text matched by one of the three worker patterns lies within the
\* 5000 characters that start at the run's PROCESSING_START match: text
\* before the match or beyond the window has no effect, worker text of a
\* later run inside the window has.
C18_WorkerModeIffPatternInWindow ==
    (script = "plans_timing" /\ pc = "done") =>
        \A r \in 1..Len(timing_data) :
            LET s == StartLine(timing_data[r].TestRun)
            IN  timing_data[r].isWorkerMode <=>
                    \E j \in WorkerTextLines :
                        j >= s /\ CharsUpToPattern(s, j) <= 5000

\* Two runs, the only worker text in the second: the first run is reported
\* as worker mode too.
C18_Witness ==
    /\ script = "plans_timing" /\ pc = "done"
    /\ Len(timing_data) = 2
    /\ \A j \in WorkerTextLines : j > StartLine(2)
    /\ timing_data[1].isWorkerMode /\ timing_data[2].isWorkerMode


\* ------------------------------------------------------------- write_csv
\* The records handed to write_csv: key "a" absent, a number or None, key
\* "b" absent or a number, and a key "x" that no fieldnames list holds.
CsvKeys == {"a", "b", "x"}

CsvValues == [a |-> {PyInt(1), None}, b |-> {PyInt(2)}, x |-> {PyInt(3)}]

CsvRecord ==
    UNION {{rec \in [keys -> {PyInt(1), PyInt(2), PyInt(3), None}] :
                \A k \in keys : rec[k] \in CsvValues[k]} : keys \in SUBSET CsvKeys}

CsvData == UNION {[1..n -> CsvRecord] : n \in 0..MaxMarkers}

CsvFieldnames == {<<"a", "b">>, <<"b", "a">>}

\* The csv module writes None as the empty string and a number as str(number).
CsvCell(value) == IF value = None THEN "" ELSE ToString(value.v)

\* DictWriter._dict_to_list with the default extrasaction="raise" and
\* restval="": a key outside fieldnames raises ValueError, a missing key
\* gives the empty string.
WrongFields(rowdict, fieldnames) ==
    DOMAIN rowdict \ {fieldnames[c] : c \in 1..Len(fieldnames)}

DictToList(rowdict, fieldnames) ==
    [c \in 1..Len(fieldnames) |->
        IF fieldnames[c] \in DOMAIN rowdict
        THEN CsvCell(rowdict[fieldnames[c]]) ELSE ""]

\* writer.writerows(data): the rows are written one by one; the first row
\* with a wrong field raises and ends the writing.
RECURSIVE WriteRows(_, _, _, _)
WriteRows(data, fieldnames, i, written) ==
    IF i > Len(data) THEN [rows |-> written, raised |-> "none"]
    ELSE IF WrongFields(data[i], fieldnames) # {}
         THEN [rows |-> written, raised |-> "ValueError"]
         ELSE WriteRows(data, fieldnames, i + 1,
                        Append(written, DictToList(data[i], fieldnames)))

InitCsv ==
    /\ script = "write_csv"
    /\ content = [lines |-> <<>>, markers |-> <<>>]
    /\ pc = "start"
    /\ Unused
    /\ argv = None
    /\ exit_code = None
    /\ files = {}
    /\ csv_call \in [data : CsvData, fieldnames : CsvFieldnames]
    /\ csv_file = None
    /\ UnusedPhases
    /\ UnusedTools

\* write_csv: open the file, DictWriter(csvfile, fieldnames=fieldnames)
WriteCsvOpen ==
    /\ script = "write_csv" /\ pc = "start"
    /\ csv_file' = [header |-> <<>>, rows |-> <<>>]
    /\ pc' = "header"
    /\ UNCHANGED <<toolVars, phaseVars, script, content, all_matches, test_run_data,
                   test_run_positions, timing_data, folder_data, warnings, raised, argv,
                   exit_code, files, csv_call>>

\* writer.writeheader()
WriteCsvHeader ==
    /\ script = "write_csv" /\ pc = "header"
    /\ csv_file' = [csv_file EXCEPT !.header = csv_call.fieldnames]
    /\ pc' = "rows"
    /\ UNCHANGED <<toolVars, phaseVars, script, content, all_matches, test_run_data,
                   test_run_positions, timing_data, folder_data, warnings, raised, argv,
                   exit_code, files, csv_call>>

\* writer.writerows(data), and the file is closed
WriteCsvRows ==
    /\ script = "write_csv" /\ pc = "rows"
    /\ LET r == WriteRows(csv_call.data, csv_call.fieldnames, 1, <<>>)
       IN  /\ csv_file' = [csv_file EXCEPT !.rows = r.rows]
           /\ raised' = r.raised
           /\ pc' = IF r.raised = "none" THEN "done" ELSE "raised"
    /\ UNCHANGED <<toolVars, phaseVars, script, content, all_matches, test_run_data,
                   test_run_positions, timing_data, folder_data, warnings, argv,
                   exit_code, files, csv_call>>

NextCsv ==
    \/ WriteCsvOpen
    \/ WriteCsvHeader
    \/ WriteCsvRows

SpecCsv == InitCsv /\ [][NextCsv]_vars

\* C14: write_csv writes the fieldnames as the header, in their order, then
\* one line per record in the same column order; a key missing from a record
\* gives an empty field, and a record key outside the fieldnames is left out:
\* the record is still written and nothing is raised.
C14_CsvRowsFollowFieldnames ==
    (script = "write_csv" /\ pc \in {"done", "raised"}) =>
        /\ raised = "none"
        /\ csv_file.header = csv_call.fieldnames
        /\ Len(csv_file.rows) = Len(csv_call.data)
        /\ \A i \in 1..Len(csv_file.rows) :
               /\ Len(csv_file.rows[i]) = Len(csv_call.fieldnames)
               /\ \A c \in 1..Len(csv_call.fieldnames) :
                      LET key == csv_call.fieldnames[c]
                          rec == csv_call.data[i]
                      IN  csv_file.rows[i][c] =
                              IF key \in DOMAIN rec /\ rec[key] # None
                              THEN ToString(rec[key].v) ELSE ""


\* ------------------------------------------------------------------ main
\* The scripts as processes: three parsers that take the input file as their
\* one argument, and two scripts that read a fixed file name.
ArgvScripts == {"plans_main", "json_main", "improved_main"}

MainScripts == ArgvScripts \cup {"trial5_main", "analyze_main"}

\* The stem of the input file name, character by character: no underscore,
\* one, two, and a leading one.
InputStems ==
    {<<"4">>, <<"R">>, <<"4", "_", "R">>, <<"R", "_", "4">>, <<"_", "R">>,
     <<"R", "_", "4", "_", "R">>}

InputDirs == {"cwd", "logs"}

\* len(sys.argv): the script name and 0, 1 or 2 arguments.
ArgCounts == {1, 2, 3}

\* input_path.stem.split('_')[0]
RECURSIVE ExtractFilenamePrefix(_)
ExtractFilenamePrefix(stem) ==
    IF stem = <<>> \/ Head(stem) = "_" THEN <<>>
    ELSE <<Head(stem)>> \o ExtractFilenamePrefix(Tail(stem))

\* output_dir / f"{prefix}{rest}"
OutputFile(dir, prefix, rest) == [dir |-> dir, prefix |-> prefix, rest |-> rest]

\* The files a main() reads: no timing line or one run boundary, and no
\* marker or one.
MainLines == {<<>>, <<[tag |-> "main", name |-> "PROCESSING_START", val |-> 0]>>}

MainContent(s) ==
    CASE s = "plans_main" ->
             [lines : MainLines, markers : {<<>>} \cup {<<b>> : b \in RegexBlob}]
      [] s = "improved_main" ->
             [lines : {<<>>}, markers : {<<>>} \cup {<<b>> : b \in RegexBlob}]
      [] OTHER ->
             [lines : MainLines, markers : {<<>>} \cup {<<b>> : b \in JsonBlob}]

InitMain ==
    /\ script \in MainScripts
    /\ \/ /\ script \in ArgvScripts
          /\ argv \in [argc : ArgCounts, dir : InputDirs, stem : InputStems,
                        exists : BOOLEAN]
       \/ /\ script = "trial5_main"
          /\ argv \in [argc : ArgCounts, dir : {"cwd"}, stem : {<<"5", "_", "R">>},
                        exists : BOOLEAN]
       \/ /\ script = "analyze_main"
          /\ argv \in [argc : ArgCounts, dir : {"cwd"}, stem : {<<"3", "_", "F">>},
                        exists : BOOLEAN]
    /\ content = [lines |-> <<>>, markers |-> <<>>]
    /\ pc = "start"
    /\ Unused
    /\ exit_code = None
    /\ files = {}
    /\ csv_call = None
    /\ csv_file = None
    /\ UnusedPhases
    /\ UnusedTools

\* sys.exit(1), or an exception that leaves main(): exit code 1.
\* A return from main(): exit code 0.
Exit(code) ==
    /\ exit_code' = PyInt(code)
    /\ pc' = "exit"

\* The parsers: len(sys.argv) != 2, then input_path.exists()
CheckArguments ==
    /\ script \in ArgvScripts /\ pc = "start"
    /\ IF argv.argc # 2 \/ ~argv.exists
       THEN Exit(1)
       ELSE pc' = "read" /\ UNCHANGED exit_code
    /\ UNCHANGED <<toolVars, phaseVars, script, content, all_matches, test_run_data,
                   test_run_positions, timing_data, folder_data, warnings, raised, argv,
                   files, csv_call, csv_file>>

\* trial5_parser.py main: sys.argv is not read; a missing input file prints
\* an error and returns.
Trial5CheckInput ==
    /\ script = "trial5_main" /\ pc = "start"
    /\ IF ~argv.exists
       THEN Exit(0)
       ELSE pc' = "read" /\ UNCHANGED exit_code
    /\ UNCHANGED <<toolVars, phaseVars, script, content, all_matches, test_run_data,
                   test_run_positions, timing_data, folder_data, warnings, raised, argv,
                   files, csv_call, csv_file>>

\* content = f.read()
ReadInput ==
    /\ script \in ArgvScripts \cup {"trial5_main"} /\ pc = "read"
    /\ content' \in MainContent(script)
    /\ pc' = "parse"
    /\ UNCHANGED <<toolVars, phaseVars, script, all_matches, test_run_data,
                   test_run_positions,
                   timing_data, folder_data, warnings, raised, argv, exit_code, files,
                   csv_call, csv_file>>

\* plans/parse_console_log.py main: both extractors, then one file for each
\* non-empty result.
PlansMain ==
    /\ script = "plans_main" /\ pc = "parse"
    /\ LET f == PlansFolderLoop(content.markers, 1, 1, <<>>, <<>>)
           g == GroupLoop(MergedMatches(content.lines), 1, 0, EmptyDict, EmptyDict)
           prefix == ExtractFilenamePrefix(argv.stem)
       IN  /\ folder_data' = f.folder_data
           /\ warnings' = f.warnings
           /\ all_matches' = MergedMatches(content.lines)
           /\ test_run_data' = g.data
           /\ test_run_positions' = g.positions
           /\ timing_data' = PlansRows(content.lines, g.data, g.positions)
           /\ files' =
                 (IF folder_data' # <<>>
                  THEN {OutputFile(argv.dir, prefix, "_FolderAnalysisData.csv")}
                  ELSE {})
                 \cup (IF timing_data' # <<>>
                       THEN {OutputFile(argv.dir, prefix, "_TestSpeedData.csv")}
                       ELSE {})
    /\ Exit(0)
    /\ UNCHANGED <<toolVars, phaseVars, script, content, raised, argv, csv_call, csv_file>>

\* improved_parser_json.py main
JsonMain ==
    /\ script = "json_main" /\ pc = "parse"
    /\ LET f == JsonFolderLoop(content.markers, 1, 1, <<>>, <<>>)
           g == GroupLoop(MergedMatches(content.lines), 1, 0, EmptyDict, EmptyDict)
           prefix == ExtractFilenamePrefix(argv.stem)
       IN  /\ folder_data' = f.folder_data
           /\ warnings' = f.warnings
           /\ all_matches' = MergedMatches(content.lines)
           /\ test_run_data' = g.data
           /\ test_run_positions' = g.positions
           /\ timing_data' = JsonRows(g.data)
           /\ files' =
                 (IF folder_data' # <<>>
                  THEN {OutputFile(argv.dir, prefix, "_CompleteFolderAnalysisData.csv")}
                  ELSE {})
                 \cup (IF timing_data' # <<>>
                       THEN {OutputFile(argv.dir, prefix, "_TestSpeedData.csv")}
                       ELSE {})
    /\ Exit(0)
    /\ UNCHANGED <<toolVars, phaseVars, script, content, raised, argv, csv_call, csv_file>>

\* improved_parser.py main: the output file has a fixed name; a ValueError
\* from the extractor leaves main().
ImprovedMain ==
    /\ script = "improved_main" /\ pc = "parse"
    /\ LET f == ImprovedFolderLoop(content.markers, 1, 1, <<>>)
       IN  /\ raised' = f.raised
           /\ IF f.raised # "none"
              THEN /\ Exit(1)
                   /\ UNCHANGED <<folder_data, files>>
              ELSE /\ folder_data' = f.folder_data
                   /\ files' = IF f.folder_data # <<>>
                               THEN {OutputFile(argv.dir, <<"4">>,
                                                "_ImprovedFolderData.csv")}
                               ELSE {}
                   /\ Exit(0)
    /\ UNCHANGED <<toolVars, phaseVars, script, content, all_matches, test_run_data,
                   test_run_positions, timing_data, warnings, argv, csv_call, csv_file>>

\* merge_data: the run numbers of either list, sorted.
MergedRuns(folder, timing) ==
    {folder[i].TestRun : i \in 1..Len(folder)}
        \cup {timing[i].TestRun : i \in 1..Len(timing)}

\* trial5_parser.py main: an exception from parse_trial5_data leaves main();
\* save_results returns None for an empty merge and main() then reads
\* output_file.name, an AttributeError.
Trial5Main ==
    /\ script = "trial5_main" /\ pc = "parse"
    /\ LET f == T5FolderLoop(content.markers, 1, <<>>, <<>>)
           timing_matches == Finditer(content.lines, "main")
           data == T5GroupLoop(timing_matches, 1, 0, EmptyDict)
       IN  IF f.raised # "none"
           THEN /\ raised' = f.raised
                /\ warnings' = f.warnings
                /\ Exit(1)
                /\ UNCHANGED <<all_matches, test_run_data, timing_data, folder_data,
                               files>>
           ELSE /\ folder_data' = f.folder_data
                /\ warnings' = f.warnings
                /\ all_matches' = timing_matches
                /\ test_run_data' = data
                /\ timing_data' = T5Rows(data)
                /\ IF MergedRuns(folder_data', timing_data') = {}
                   THEN /\ raised' = "AttributeError"
                        /\ Exit(1)
                        /\ UNCHANGED files
                   ELSE /\ files' = {OutputFile("cwd", <<"5">>,
                                                "_CompleteAnalysisData.csv")}
                        /\ Exit(0)
                        /\ UNCHANGED raised
    /\ UNCHANGED <<toolVars, phaseVars, script, content, test_run_positions, argv,
                   csv_call, csv_file>>

\* analyze_3stage_data.py main: load_data and the analysis run inside
\* try / except FileNotFoundError / except Exception; both handlers print
\* and main() returns.
AnalyzeMain ==
    /\ script = "analyze_main" /\ pc = "start"
    /\ raised' = IF argv.exists THEN "none" ELSE "FileNotFoundError"
    /\ Exit(0)
    /\ UNCHANGED <<toolVars, phaseVars, script, content, all_matches, test_run_data,
                   test_run_positions, timing_data, folder_data, warnings, argv, files,
                   csv_call, csv_file>>

NextMain ==
    \/ CheckArguments
    \/ Trial5CheckInput
    \/ ReadInput
    \/ PlansMain
    \/ JsonMain
    \/ ImprovedMain
    \/ Trial5Main
    \/ AnalyzeMain

SpecMain == InitMain /\ [][NextMain]_vars

\* The process was started with a wrong number of arguments (the parsers
\* take exactly one), or the file it is to read does not exist.
WrongUsage == script \in ArgvScripts /\ argv.argc # 2

InputMissing == ~argv.exists

\* C15: every script ends with exit code 1 when its input file is missing or
\* its argument count is wrong, and with exit code 0 only when the input was
\* found and processed; for the three parsers that take the file as argument
\* and for trial5_parser.py and analyze_3stage_data.py, which read a fixed
\* file name.
C15_ExitCodeReportsMissingInput ==
    (script \in MainScripts /\ pc = "exit") =>
        /\ (WrongUsage \/ InputMissing) => exit_code = PyInt(1)
        /\ exit_code = PyInt(0) => (~WrongUsage /\ ~InputMissing /\ raised = "none")

\* The text of name before its first underscore; all of name when it has none.
IsTextBeforeFirstUnderscore(prefix, name) ==
    /\ \A i \in 1..Len(prefix) : prefix[i] # "_"
    /\ Len(prefix) <= Len(name)
    /\ SubSeq(name, 1, Len(prefix)) = prefix
    /\ Len(prefix) < Len(name) => name[Len(prefix) + 1] = "_"

\* C16: parse_console_log.py, improved_parser_json.py and improved_parser.py
\* write every output file into the directory of the input file, under a name
\* that starts with the text before the first underscore of the input file
\* name (the whole stem when it has none).
C16_OutputNextToInputWithItsPrefix ==
    (script \in ArgvScripts /\ pc = "exit") =>
        \A f \in files :
            /\ f.dir = argv.dir
            /\ IsTextBeforeFirstUnderscore(f.prefix, argv.stem)


\* ------------------------------------------- analyze_processing_phases.py
\* The columns of durations_df after 'Test Run', in the order
\* calculate_phase_durations fills them: the total and the six phases.
PhaseColumns ==
    <<"Total Time", "Deduplication Phase", "Hash Calculation", "UI Update Phase",
      "Chunk1 Processing", "Chunk2 Processing", "DOM Render Time">>

ColumnSet == {PhaseColumns[c] : c \in 1..Len(PhaseColumns)}

\* The durations of one run, in ms: 0 stands for a phase whose timestamps are
\* missing, -1 for a phase whose end was logged before its start.
DurationValues(col) ==
    CASE col = "Total Time" -> {0, 10}
      [] col = "Deduplication Phase" -> {0, 6}
      [] col = "Hash Calculation" -> {0, 6}
      [] col = "UI Update Phase" -> {-1, 1}
      [] OTHER -> {0}

DurationRow == {row \in [ColumnSet -> {-1, 0, 1, 6, 10}] :
                    \A col \in ColumnSet : row[col] \in DurationValues(col)}

DurationFrames == UNION {[1..n -> DurationRow] : n \in 1..MaxRuns}

\* Series.sum() of a column, over the rows that satisfy keep.
RECURSIVE SumFrom(_, _, _, _)
SumFrom(df, col, i, positive_only) ==
    IF i > Len(df) THEN 0
    ELSE (IF positive_only /\ ~(df[i][col] > 0) THEN 0 ELSE df[i][col])
         + SumFrom(df, col, i + 1, positive_only)

\* durations_df[col] != 0 in place of durations_df[col] > 0
ValuesNotZero(df, col) == {i \in 1..Len(df) : df[i][col] # 0}

\* non_zero_values = durations_df[durations_df[col] > 0][col], as the set of
\* the rows kept.
NonZeroValues(df, col) == {i \in 1..Len(df) : df[i][col] > 0}

\* Series.sum() over the rows kept
RECURSIVE SumOver(_, _, _)
SumOver(df, col, rows) ==
    IF rows = {} THEN 0
    ELSE LET i == CHOOSE x \in rows : TRUE
         IN  df[i][col] + SumOver(df, col, rows \ {i})

\* The values kept, in ascending order.
RECURSIVE SortedValues(_, _, _)
SortedValues(df, col, rows) ==
    IF rows = {} THEN <<>>
    ELSE LET i == CHOOSE x \in rows : \A y \in rows : df[x][col] <= df[y][col]
         IN  <<df[i][col]>> \o SortedValues(df, col, rows \ {i})

\* A float result, as the fraction num / den.
Float(num, den) == [num |-> num, den |-> den]

\* Series.mean()
Mean(df, col, rows) == Float(SumOver(df, col, rows), Cardinality(rows))

\* Series.median(): the middle value, or the mean of the two middle values.
Median(df, col, rows) ==
    LET sorted == SortedValues(df, col, rows)
        n == Len(sorted)
    IN  IF n % 2 = 1 THEN Float(sorted[(n + 1) \div 2], 1)
        ELSE Float(sorted[n \div 2] + sorted[n \div 2 + 1], 2)

\* analyze_phase_statistics: one summary row per numeric column other than
\* 'Test Run', over the values greater than zero ('Total Time' is such a
\* column).  'Std Dev (ms)' is left out.
PhaseStatistics(df) ==
    [c \in 1..Len(PhaseColumns) |->
        LET col == PhaseColumns[c]
            non_zero_values == NonZeroValues(df, col)
        IN  IF Cardinality(non_zero_values) > 0
            THEN [Phase |-> col,
                  Count |-> Cardinality(non_zero_values),
                  Min |-> SortedValues(df, col, non_zero_values)[1],
                  Max |-> SortedValues(df, col, non_zero_values)
                              [Cardinality(non_zero_values)],
                  Average |-> Mean(df, col, non_zero_values),
                  Median |-> Median(df, col, non_zero_values),
                  TotalContribution |-> SumOver(df, col, non_zero_values)]
            ELSE [Phase |-> col, Count |-> 0, Min |-> 0, Max |-> 0,
                  Average |-> Float(0, 1), Median |-> Float(0, 1),
                  TotalContribution |-> 0]]

\* sort_values('Total Contribution (ms)', ascending=False) with the default
\* sort kind, which leaves the order of equal keys open: every descending
\* order of the rows.
RECURSIVE DescendingOrders(_)
DescendingOrders(rows) ==
    IF rows = {} THEN {<<>>}
    ELSE LET top == {r \in rows : \A q \in rows :
                                     q.TotalContribution <= r.TotalContribution}
         IN  UNION {{<<r>> \o rest : rest \in DescendingOrders(rows \ {r})} :
                        r \in top}

\* cumulative_pct += row['Percentage of Total'], a float: contribution /
\* total_time * 100 is a number for a non-zero total_time, inf for a positive
\* contribution over 0 and nan for 0 over 0; nan absorbs every later sum.
AddPercentage(cumulative, contribution, total_time) ==
    IF total_time # 0
    THEN [kind |-> "num", v |-> cumulative.v + contribution]
    ELSE IF contribution = 0 \/ cumulative.kind = "nan"
         THEN [kind |-> "nan", v |-> 0]
         ELSE [kind |-> "inf", v |-> 0]

\* cumulative_pct >= 90, with cumulative.v the summed contributions.
ReachesNinety(cumulative, total_time) ==
    \/ cumulative.kind = "inf"
    \/ cumulative.kind = "num" /\ cumulative.v * 100 >= 90 * total_time

\* The loop of identify_major_phases over the sorted rows.
RECURSIVE MajorLoop(_, _, _, _, _)
MajorLoop(sorted, i, cumulative, total_time, phases) ==
    IF i > Len(sorted) THEN phases
    ELSE LET cumulative2 ==
                 AddPercentage(cumulative, sorted[i].TotalContribution, total_time)
             phases2 == Append(phases, sorted[i].Phase)
         IN  IF ReachesNinety(cumulative2, total_time) THEN phases2
             ELSE MajorLoop(sorted, i + 1, cumulative2, total_time, phases2)

InitPhases ==
    /\ script = "analyze_phases"
    /\ content = [lines |-> <<>>, markers |-> <<>>]
    /\ pc = "start"
    /\ Unused
    /\ UnusedMain
    /\ UnusedTools
    /\ durations_df \in DurationFrames
    /\ stats_df = <<>>
    /\ major_phases = <<>>

\* main: stats_df = analyze_phase_statistics(durations_df)
AnalyzePhaseStatistics ==
    /\ script = "analyze_phases" /\ pc = "start"
    /\ stats_df' = PhaseStatistics(durations_df)
    /\ pc' = "stats"
    /\ UNCHANGED <<toolVars, mainVars, script, content, all_matches, test_run_data,
                   test_run_positions, timing_data, folder_data, warnings, raised,
                   durations_df, major_phases>>

\* main: stats_df, major_phases = identify_major_phases(stats_df, durations_df)
IdentifyMajorPhases ==
    /\ script = "analyze_phases" /\ pc = "stats"
    /\ LET total_time == SumFrom(durations_df, "Total Time", 1, FALSE)
       IN  \E sorted \in DescendingOrders({stats_df[c] : c \in 1..Len(stats_df)}) :
               /\ stats_df' = sorted
               /\ major_phases' =
                      MajorLoop(sorted, 1, [kind |-> "num", v |-> 0], total_time, <<>>)
    /\ pc' = "done"
    /\ UNCHANGED <<toolVars, mainVars, script, content, all_matches, test_run_data,
                   test_run_positions, timing_data, folder_data, warnings, raised,
                   durations_df>>

NextPhases ==
    \/ AnalyzePhaseStatistics
    \/ IdentifyMajorPhases

SpecPhases == InitPhases /\ [][NextPhases]_vars

\* The six processing phases, and what the durations say of them.
SixPhases == ColumnSet \ {"Total Time"}

Contribution(col) == SumFrom(durations_df, col, 1, TRUE)

SummedTotalTime == SumFrom(durations_df, "Total Time", 1, FALSE)

\* The summed contribution of the first k returned phases.
RECURSIVE CumulativeContribution(_)
CumulativeContribution(k) ==
    IF k = 0 THEN 0
    ELSE CumulativeContribution(k - 1) + Contribution(major_phases[k])

ShareReachesNinety(k) ==
    SummedTotalTime > 0 /\ CumulativeContribution(k) * 100 >= 90 * SummedTotalTime

\* C20: identify_major_phases returns the shortest prefix, in descending
\* order of total contribution, of the six processing phases whose summed
\* share of the summed Total Time reaches 90%, or all six when 90% is never
\* reached; 'Total Time' itself is not among the returned phases.
C20_MajorPhasesShortestPrefixToNinety ==
    (script = "analyze_phases" /\ pc = "done") =>
        LET n == Len(major_phases)
        IN  /\ \A i \in 1..n : major_phases[i] \in SixPhases
            /\ \A i, j \in 1..n :
                   i < j => /\ major_phases[i] # major_phases[j]
                            /\ Contribution(major_phases[i])
                                   >= Contribution(major_phases[j])
            /\ \A col \in SixPhases \ {major_phases[i] : i \in 1..n} :
                   \A i \in 1..n : Contribution(col) <= Contribution(major_phases[i])
            /\ \A k \in 1..(n - 1) : ~ShareReachesNinety(k)
            /\ ShareReachesNinety(n) \/ n = Cardinality(SixPhases)

\* ------------------------------------------------- runs with all four events
\* Logs long enough to hold one complete run: the four processingTimer.js
\* events, in any order and with any of the timestamps.
MaxEvents == 4

RunLine == [tag : {"main"}, name : EventNames, val : Timestamps]

RunLogs == UNION {[1..n -> RunLine] : n \in 0..MaxEvents}

RunScripts == {"plans_timing", "json_timing", "trial5"}

InitRuns ==
    /\ script \in RunScripts
    /\ content \in [lines : RunLogs, markers : {<<>>}]
    /\ pc = "start"
    /\ Unused
    /\ UnusedMain
    /\ UnusedPhases
    /\ UnusedTools

NextRuns ==
    \/ PlansCollectMatches
    \/ PlansGroupTestRuns
    \/ PlansBuildRows
    \/ JsonCollectMatches
    \/ JsonGroupTestRuns
    \/ JsonBuildRows
    \/ T5FolderPass
    \/ T5GroupTiming
    \/ T5BuildRows

SpecRuns == InitRuns /\ [][NextRuns]_vars

AllPhasesDefined(row) ==
    /\ row.phase1FileAnalysisMs # None
    /\ row.phase2HashProcessingMs # None
    /\ row.phase3UIRenderingMs # None

\* C24: in parse_timing_data (plans and JSON variants) and in
\* parse_trial5_data, a row whose three phase durations are all defined has
\* a defined totalDurationMs, and the three phases add up to it.
C24_PhasesSumToTotal ==
    (pc = "done" /\ script \in RunScripts) =>
        \A r \in 1..Len(timing_data) :
            LET row == timing_data[r]
            IN  AllPhasesDefined(row) =>
                    /\ row.totalDurationMs # None
                    /\ row.phase1FileAnalysisMs.v + row.phase2HashProcessingMs.v
                            + row.phase3UIRenderingMs.v = row.totalDurationMs.v

\* A run that logged all four events with the timestamps out of order:
\* the phases are 2, -2 and 2, and the total is 2.
C24_Witness ==
    /\ pc = "done" /\ script \in {"plans_timing", "json_timing"}
    /\ \E r \in 1..Len(timing_data) :
        /\ AllPhasesDefined(timing_data[r])
        /\ timing_data[r].phase1FileAnalysisMs = PyInt(2)
        /\ timing_data[r].phase2HashProcessingMs = PyInt(-2)
        /\ timing_data[r].phase3UIRenderingMs = PyInt(2)
        /\ timing_data[r].totalDurationMs = PyInt(2)

\* C25: in the extractors whose run index starts at 0 (plans, JSON, trial5)
\* every run group holds the PROCESSING_START timestamp logged by the line
\* that opened it, so the default of data.get('PROCESSING_START', 0) is never
\* taken, and the plans and JSON variants recorded that line's place in the
\* log as the run's start position.
C25_EveryRunHasLoggedStart ==
    (pc \in {"rows", "done"} /\ script \in RunScripts) =>
        \A k \in DOMAIN test_run_data :
            /\ k \in 1..NumStarts
            /\ "PROCESSING_START" \in DOMAIN test_run_data[k]
            /\ test_run_data[k]["PROCESSING_START"] = content.lines[StartLine(k)].val
            /\ script \in {"plans_timing", "json_timing"} =>
                /\ k \in DOMAIN test_run_positions
                /\ test_run_positions[k] = StartLine(k)
            /\ pc = "done" =>
                timing_data[k].PROCESSING_START = PyInt(test_run_data[k]["PROCESSING_START"])

\* An event logged before the first PROCESSING_START, then a run opened at a
\* later place with the timestamp 2.
C25_Witness ==
    /\ pc = "done" /\ script = "json_timing"
    /\ Len(content.lines) >= 2
    /\ Seen(1) /\ ~IsStart(1)
    /\ NumStarts = 1
    /\ test_run_positions[1] > 1
    /\ timing_data[1].PROCESSING_START = PyInt(2)

DurationColumns ==
    {"totalDurationMs", "phase1FileAnalysisMs", "phase2HashProcessingMs",
     "phase3UIRenderingMs"}

\* C26: parse_trial5_data never emits a negative duration: each phase and the
\* total of every row is None or an integer that is at least 0, in whatever
\* order the timestamps were logged.
C26_T5DurationsNeverNegative ==
    (pc = "done" /\ script = "trial5") =>
        \A r \in 1..Len(timing_data) :
            \A col \in DurationColumns :
                \/ timing_data[r][col] = None
                \/ timing_data[r][col].t = "int" /\ timing_data[r][col].v >= 0

\* A run logged out of order: UI_UPDATE_START is earlier than
\* DEDUPLICATION_START, so phase 2 is None while phase 1 and phase 3 are 2.
C26_Witness ==
    /\ pc = "done" /\ script = "trial5"
    /\ \E r \in 1..Len(timing_data) :
        /\ timing_data[r].DEDUPLICATION_START = PyInt(2)
        /\ timing_data[r].UI_UPDATE_START = PyInt(0)
        /\ timing_data[r].phase1FileAnalysisMs = PyInt(2)
        /\ timing_data[r].phase2HashProcessingMs = None
        /\ timing_data[r].phase3UIRenderingMs = PyInt(2)

\* ------------------------------------------------ trial5_parser.py merge_data
\* The JSON objects of the merge logs: every object holds totalFiles, and may
\* hold a "TestRun" key and a key that is also a timing column.
MergeBlob ==
    [decodes : {TRUE}, TestRun : {None, PyInt(1), PyInt(3)},
     totalDurationMs : {None, PyInt(7)}]
        \cup {[decodes |-> FALSE, TestRun |-> None, totalDurationMs |-> None]}

MergeBlobs == UNION {[1..n -> MergeBlob] : n \in 0..MaxMarkers}

MergeLine ==
    [tag : {"main"}, name : {"PROCESSING_START", "ALL_FILES_DISPLAYED"},
     val : Timestamps]

MergeLines == UNION {[1..n -> MergeLine] : n \in 0..MaxLen}

\* json.loads(match) for an object of the merge logs
MergeLoads(blob) ==
    LET present == {f \in {"TestRun", "totalDurationMs"} : blob[f] # None}
    IN  [f \in present \cup {"totalFiles"} |->
            IF f = "totalFiles" THEN PyInt(3) ELSE blob[f]]

\* parse_trial5_data, the folder loop: all the values are numbers, so the
\* summary line always formats.
RECURSIVE MergeFolderLoop(_, _, _)
MergeFolderLoop(folder_matches, i, records) ==
    IF i > Len(folder_matches) THEN records
    ELSE IF ~folder_matches[i].decodes
         THEN MergeFolderLoop(folder_matches, i + 1, records)
         ELSE MergeFolderLoop(folder_matches, i + 1,
                  Append(records, T5FolderRecord(i, MergeLoads(folder_matches[i]))))

\* The dict a folder record stands for: {'TestRun': ..., **data}
FolderItem(rec) ==
    [k \in {"TestRun"} \cup DOMAIN rec.data |->
        IF k = "TestRun" THEN rec.TestRun ELSE rec.data[k]]

\* {item['TestRun']: item for item in items}: the last item of a run number
\* is the one kept.
ByRun(items) ==
    LET runs == {items[i].TestRun : i \in 1..Len(items)}
    IN  [n \in runs |->
            items[SetMax({i \in 1..Len(items) : items[i].TestRun = n})]]

\* {**timing_item, **folder_item}: the folder value kept for a shared key.
MergedItemFolderWins(folder_item, timing_item, run_num) ==
    DictSet([k \in DOMAIN folder_item \cup DOMAIN timing_item |->
                IF k \in DOMAIN folder_item THEN folder_item[k] ELSE timing_item[k]],
            "TestRun", run_num)

\* merged_item = {**folder_item, **timing_item}; merged_item['TestRun'] = run_num
MergedItem(folder_item, timing_item, run_num) ==
    DictSet([k \in DOMAIN folder_item \cup DOMAIN timing_item |->
                IF k \in DOMAIN timing_item THEN timing_item[k] ELSE folder_item[k]],
            "TestRun", run_num)

MergeData(folder, timing) ==
    LET folder_by_run == ByRun(folder)
        timing_by_run == ByRun(timing)
        all_runs == DOMAIN folder_by_run \cup DOMAIN timing_by_run
        sorted_runs == SortedSeq(all_runs)
    IN  [j \in 1..Len(sorted_runs) |->
            LET run_num == sorted_runs[j]
                folder_item == IF run_num \in DOMAIN folder_by_run
                               THEN FolderItem(folder_by_run[run_num])
                               ELSE EmptyDict
                timing_item == IF run_num \in DOMAIN timing_by_run
                               THEN timing_by_run[run_num]
                               ELSE EmptyDict
            IN  MergedItem(folder_item, timing_item, run_num)]

InitMerge ==
    /\ script = "trial5_merge"
    /\ content \in [lines : MergeLines, markers : MergeBlobs]
    /\ pc = "start"
    /\ Unused
    /\ UnusedMain
    /\ UnusedPhases
    /\ UnusedTools

\* main: folder_data, timing_data = parse_trial5_data(content)
MergeParse ==
    /\ script = "trial5_merge" /\ pc = "start"
    /\ folder_data' = MergeFolderLoop(content.markers, 1, <<>>)
    /\ all_matches' = Finditer(content.lines, "main")
    /\ test_run_data' = T5GroupLoop(all_matches', 1, 0, EmptyDict)
    /\ timing_data' = T5Rows(test_run_data')
    /\ pc' = "merge"
    /\ UNCHANGED <<toolVars, phaseVars, mainVars, script, content, test_run_positions,
                   warnings, raised>>

\* main: merged_data = merge_data(folder_data, timing_data)
MergeDataCall ==
    /\ script = "trial5_merge" /\ pc = "merge"
    /\ merged_data' = MergeData(folder_data, timing_data)
    /\ pc' = "merged"
    /\ UNCHANGED <<calibVars, scanVars, phaseVars, mainVars, script, content, all_matches, test_run_data,
                   test_run_positions, timing_data, folder_data, warnings, raised>>

NextMerge ==
    \/ MergeParse
    \/ MergeDataCall

SpecMerge == InitMerge /\ [][NextMerge]_vars

\* The last folder record and the timing row of a run number.
FolderRecordsOf(n) == {i \in 1..Len(folder_data) : folder_data[i].TestRun = n}

TimingRowsOf(n) == {i \in 1..Len(timing_data) : timing_data[i].TestRun = n}

FolderFieldsOf(n) == FolderItem(folder_data[SetMax(FolderRecordsOf(n))])

TimingFieldsOf(n) == timing_data[SetMax(TimingRowsOf(n))]

\* C27: merge_data returns exactly one record for every run number of the
\* folder records or of the timing rows, in ascending order of run number;
\* the record's TestRun is that run number, its keys are the keys of the two
\* sides, a key of the timing row carries the timing value, and any other key
\* carries the folder value.
C27_MergeIsUnionTimingWins ==
    pc = "merged" =>
        /\ {merged_data[j].TestRun : j \in 1..Len(merged_data)}
               = MergedRuns(folder_data, timing_data)
        /\ \A j, k \in 1..Len(merged_data) :
               j < k => merged_data[j].TestRun < merged_data[k].TestRun
        /\ \A j \in 1..Len(merged_data) :
            LET n == merged_data[j].TestRun
                f == IF FolderRecordsOf(n) # {} THEN FolderFieldsOf(n) ELSE EmptyDict
                t == IF TimingRowsOf(n) # {} THEN TimingFieldsOf(n) ELSE EmptyDict
            IN  /\ DOMAIN merged_data[j] = DOMAIN f \cup DOMAIN t \cup {"TestRun"}
                /\ \A key \in DOMAIN merged_data[j] \ {"TestRun"} :
                       merged_data[j][key] =
                           IF key \in DOMAIN t THEN t[key] ELSE f[key]

\* Run 1 is on both sides and the folder object holds totalDurationMs = 7,
\* which the merged record replaces by the timing row's value; run 2 is on
\* the folder side only and keeps the folder value.
C27_Witness ==
    /\ pc = "merged"
    /\ Len(merged_data) = 2
    /\ TimingRowsOf(1) # {} /\ FolderRecordsOf(1) # {}
    /\ "totalDurationMs" \in DOMAIN FolderFieldsOf(1)
    /\ FolderFieldsOf(1)["totalDurationMs"] = PyInt(7)
    /\ merged_data[1]["totalDurationMs"] = PyInt(2)
    /\ merged_data[1]["totalFiles"] = PyInt(3)
    /\ TimingRowsOf(2) = {} /\ FolderRecordsOf(2) # {}
    /\ "totalDurationMs" \in DOMAIN merged_data[2]
    /\ merged_data[2]["totalDurationMs"] = PyInt(7)

\* The runs whose duration for the column is strictly positive.
PositiveRuns(col) == {i \in 1..Len(durations_df) : durations_df[i][col] > 0}

\* The float is the middle of the values of the runs in rows: two of the
\* runs (the same one for an odd count) average to it, with as many of the
\* other values at or below them as at or above them.
IsMedianOf(float, col, rows) ==
    \E a, b \in rows :
        /\ (Cardinality(rows) % 2 = 1) <=> (a = b)
        /\ durations_df[a][col] <= durations_df[b][col]
        /\ float.num * 2 = (durations_df[a][col] + durations_df[b][col]) * float.den
        /\ \E lower \in SUBSET (rows \ {a, b}) :
            /\ 2 * Cardinality(lower) = Cardinality(rows \ {a, b})
            /\ \A i \in lower : durations_df[i][col] <= durations_df[a][col]
            /\ \A i \in (rows \ {a, b}) \ lower :
                   durations_df[i][col] >= durations_df[b][col]

\* C21: analyze_phase_statistics reports one row for each duration column;
\* its Count is the number of runs whose duration is strictly positive, its
\* Min, Max, Average, Median and Total Contribution are those of these runs
\* only (a 0 standing for a missing timestamp takes no part), and all of them
\* are 0 when there is no such run.
C21_StatisticsOverPositiveRunsOnly ==
    (script = "analyze_phases" /\ pc \in {"stats", "done"}) =>
        /\ {stats_df[r].Phase : r \in 1..Len(stats_df)} = ColumnSet
        /\ Len(stats_df) = Len(PhaseColumns)
        /\ \A r \in 1..Len(stats_df) :
            LET row == stats_df[r]
                col == row.Phase
                runs == PositiveRuns(col)
            IN  /\ row.Count = Cardinality(runs)
                /\ row.TotalContribution = SumFrom(durations_df, col, 1, TRUE)
                /\ row.Average.num * row.Count = row.TotalContribution * row.Average.den
                /\ row.Average.den # 0 /\ row.Median.den # 0
                /\ IF runs = {}
                   THEN /\ row.Min = 0 /\ row.Max = 0
                        /\ row.Average.num = 0 /\ row.Median.num = 0
                   ELSE /\ \E i \in runs : durations_df[i][col] = row.Min
                        /\ \A i \in runs : durations_df[i][col] >= row.Min
                        /\ \E i \in runs : durations_df[i][col] = row.Max
                        /\ \A i \in runs : durations_df[i][col] <= row.Max
                        /\ IsMedianOf(row.Median, col, runs)

\* Two runs: the Deduplication Phase is 0 in one and 6 in the other (count 1,
\* minimum and average 6), the UI Update Phase is -1 and 1 (count 1), and
\* Chunk1 Processing is 0 in both (all statistics 0).
C21_Witness ==
    /\ script = "analyze_phases" /\ pc = "stats"
    /\ Len(durations_df) = 2
    /\ durations_df[1]["Deduplication Phase"] = 0
    /\ durations_df[2]["Deduplication Phase"] = 6
    /\ durations_df[1]["UI Update Phase"] = -1
    /\ durations_df[2]["UI Update Phase"] = 1
    /\ stats_df[2].Count = 1 /\ stats_df[2].Min = 6 /\ stats_df[2].Average.num = 6
    /\ stats_df[4].Count = 1 /\ stats_df[4].TotalContribution = 1
    /\ stats_df[5].Count = 0 /\ stats_df[5].Max = 0

\* ------------------------------------------------------- calibration scripts
\* recalibrate_constants.py, final_calibration.py and simple_calibration.py:
\* what they do with phase2HashProcessingMs and duplicateCandidateCount.
CalibScripts == {"recalibrate", "final_calibration", "simple_calibration"}

\* One worker-mode run of the merged CSV data.
CalibRow == [phase2HashProcessingMs : {0, 8}, duplicateCandidateCount : {0, 2, 4}]

CalibFrames == UNION {[1..n -> CalibRow] : n \in 0..MaxRuns}

\* Floats: a fraction, inf or nan.
NaN == [kind |-> "nan", num |-> 0, den |-> 1]
Inf == [kind |-> "inf", num |-> 0, den |-> 1]
Num(num, den) == [kind |-> "num", num |-> num, den |-> den]

\* What LinearRegression().fit returns as coefficient: some fitted number.
Fitted == [kind |-> "fit", num |-> 0, den |-> 1]

\* return 4.0, 0.0 and phase2_constant = 4.0
Fallback == Num(4, 1)

\* An element of Series / Series: a positive number over 0 is inf, 0 over 0
\* is nan, and nothing is raised.
SeriesDiv(x, y) ==
    IF y # 0 THEN Num(x, y) ELSE IF x = 0 THEN NaN ELSE Inf

\* df[col_a] / df[col_b] over the rows kept
RatioSeries(df, rows) ==
    [j \in 1..Len(rows) |->
        [run |-> rows[j],
         ratio |-> SeriesDiv(df[rows[j]].phase2HashProcessingMs,
                             df[rows[j]].duplicateCandidateCount)]]

\* df[df['duplicateCandidateCount'] > 0]: the rows kept, in order
ValidRows(df) ==
    SelectSeq([i \in 1..Len(df) |-> i], LAMBDA i : df[i].duplicateCandidateCount > 0)

AllRows(df) == [i \in 1..Len(df) |-> i]

\* series[series.notna()]
NotNa(series) == SelectSeq(series, LAMBDA e : e.ratio.kind # "nan")

LessEq(a, b) ==
    \/ b.kind = "inf"
    \/ a.kind = "num" /\ b.kind = "num" /\ a.num * b.den <= b.num * a.den

Add(a, b) ==
    IF a.kind = "inf" \/ b.kind = "inf" THEN Inf
    ELSE Num(a.num * b.den + b.num * a.den, a.den * b.den)

RECURSIVE SeriesSum(_, _)
SeriesSum(series, i) ==
    IF i > Len(series) THEN Num(0, 1)
    ELSE Add(series[i].ratio, SeriesSum(series, i + 1))

\* Series.mean(): nan for an empty series
SeriesMean(series) ==
    IF Len(series) = 0 THEN NaN
    ELSE LET total == SeriesSum(series, 1)
         IN  IF total.kind = "inf" THEN Inf
             ELSE Num(total.num, total.den * Len(series))

\* The entries in ascending order of ratio.
RECURSIVE SortedRatios(_, _)
SortedRatios(series, left) ==
    IF left = {} THEN <<>>
    ELSE LET i == CHOOSE x \in left :
                      \A y \in left : LessEq(series[x].ratio, series[y].ratio)
         IN  <<series[i].ratio>> \o SortedRatios(series, left \ {i})

\* Series.median(): nan for an empty series
SeriesMedian(series) ==
    LET sorted == SortedRatios(series, DOMAIN series)
        n == Len(sorted)
        sum == Add(sorted[n \div 2], sorted[n \div 2 + 1])
    IN  IF n = 0 THEN NaN
        ELSE IF n % 2 = 1 THEN sorted[(n + 1) \div 2]
        ELSE IF sum.kind = "inf" THEN Inf
        ELSE Num(sum.num, sum.den * 2)

InitCalib ==
    /\ script \in CalibScripts
    /\ content = [lines |-> <<>>, markers |-> <<>>]
    /\ pc = "start"
    /\ Unused
    /\ UnusedMain
    /\ UnusedPhases
    /\ merged_data = <<>>
    /\ UnusedScan
    /\ calib_df \in CalibFrames
    /\ phase2_per_candidate = <<>>
    /\ phase2_constant = None

\* recalibrate_constants.py analyze_phase_patterns: the ratio of every run,
\* nan dropped; the average is printed.
AnalyzePhasePatterns ==
    /\ script = "recalibrate" /\ pc = "start"
    /\ phase2_per_candidate' = NotNa(RatioSeries(calib_df, AllRows(calib_df)))
    /\ phase2_constant' = SeriesMean(phase2_per_candidate')
    /\ pc' = "calibrate"
    /\ UNCHANGED <<merged_data, scanVars, phaseVars, mainVars, script, content,
                   all_matches, test_run_data, test_run_positions, timing_data,
                   folder_data, warnings, raised, calib_df>>

\* recalibrate_constants.py calibrate_phase2: the regression over the runs
\* with a positive count, or the fallback.
CalibratePhase2 ==
    /\ script = "recalibrate" /\ pc = "calibrate"
    /\ phase2_constant' = IF Len(ValidRows(calib_df)) = 0 THEN Fallback ELSE Fitted
    /\ pc' = "done"
    /\ UNCHANGED <<merged_data, scanVars, phaseVars, mainVars, script, content,
                   all_matches, test_run_data, test_run_positions, timing_data,
                   folder_data, warnings, raised, calib_df, phase2_per_candidate>>

\* final_calibration.py main: the median of the ratios of the valid runs
FinalCalibration ==
    /\ script = "final_calibration" /\ pc = "start"
    /\ phase2_per_candidate' = RatioSeries(calib_df, ValidRows(calib_df))
    /\ phase2_constant' = SeriesMedian(phase2_per_candidate')
    /\ pc' = "done"
    /\ UNCHANGED <<merged_data, scanVars, phaseVars, mainVars, script, content,
                   all_matches, test_run_data, test_run_positions, timing_data,
                   folder_data, warnings, raised, calib_df>>

\* simple_calibration.py simple_calibration
SimpleCalibration ==
    /\ script = "simple_calibration" /\ pc = "start"
    /\ LET valid_phase2 == ValidRows(calib_df)
       IN  IF Len(valid_phase2) > 0
           THEN /\ phase2_per_candidate' = RatioSeries(calib_df, valid_phase2)
                /\ phase2_constant' = SeriesMedian(phase2_per_candidate')
           ELSE /\ phase2_per_candidate' = <<>>
                /\ phase2_constant' = Fallback
    /\ pc' = "done"
    /\ UNCHANGED <<merged_data, scanVars, phaseVars, mainVars, script, content,
                   all_matches, test_run_data, test_run_positions, timing_data,
                   folder_data, warnings, raised, calib_df>>

NextCalib ==
    \/ AnalyzePhasePatterns
    \/ CalibratePhase2
    \/ FinalCalibration
    \/ SimpleCalibration

SpecCalib == InitCalib /\ [][NextCalib]_vars

NoPositiveCount ==
    \A i \in 1..Len(calib_df) : calib_df[i].duplicateCandidateCount = 0

\* C22: in the calibration scripts the Phase 2 per-candidate ratio is held
\* only for runs whose duplicateCandidateCount is positive, and a script that
\* has finished with no such run reports its fallback constant, not a value
\* derived from an empty set.
C22_RatioOnlyForPositiveCounts ==
    (script \in CalibScripts /\ pc # "start") =>
        /\ \A j \in 1..Len(phase2_per_candidate) :
               calib_df[phase2_per_candidate[j].run].duplicateCandidateCount > 0
        /\ (pc = "done" /\ NoPositiveCount) => phase2_constant = Fallback

\* -------------------------------------------------- directory-scanning scripts
\* count_browser_files_fast.py, count_browser_accessible_files.py and
\* count_files_with_access.py.  A file name is the sequence of its characters.
MaxFiles == 21

FileNames ==
    {<<"a", ".", "t", "x", "t">>,
     <<".", "e", "n", "v">>,
     <<"T", "h", "u", "m", "b", "s", ".", "d", "b">>,
     <<".", "D", "S", "_", "S", "t", "o", "r", "e">>,
     <<"~", "l", "o", "c", "k">>,
     <<"a", ".", "t", "m", "p">>,
     <<"~", "a", ".", "t", "m", "p">>}

AttributeNames ==
    {"HIDDEN", "SYSTEM", "TEMPORARY", "OFFLINE", "RECALL_ON_DATA_ACCESS",
     "REPARSE_POINT"}

\* st_file_attributes of the stat result: not there off Windows, else a set
\* of bits.
FileAttributes ==
    {[present |-> FALSE, bits |-> {}]}
        \cup {[present |-> TRUE, bits |-> b] :
                b \in {{}, {"HIDDEN", "SYSTEM"}} \cup {{a} : a \in AttributeNames}}

Errors == {"PermissionError", "FileNotFoundError", "OSError"}

\* A file of the walked directory: its name, and what os.stat and
\* open(...).read(1) do with it.
Files ==
    {f \in [name : FileNames, attrs : FileAttributes, stat : Errors \cup {"ok"},
            open : Errors \cup {"ok"}] :
        f.stat # "ok" => (~f.attrs.present /\ f.open = f.stat)}

PlainName == <<"a", ".", "t", "x", "t">>

\* One file for each way a scan can count it.
ScanFiles ==
    {[name |-> PlainName, attrs |-> [present |-> FALSE, bits |-> {}],
      stat |-> "ok", open |-> o] : o \in Errors \cup {"ok"}}
        \cup {[name |-> <<".", "e", "n", "v">>,
               attrs |-> [present |-> FALSE, bits |-> {}],
               stat |-> "ok", open |-> "ok"],
              [name |-> PlainName, attrs |-> [present |-> TRUE, bits |-> {"OFFLINE"}],
               stat |-> "ok", open |-> "ok"]}

\* The directories: one file of any kind, a few files of the counted kinds,
\* or many copies of one of them.
Walks ==
    {<<f>> : f \in Files}
        \cup UNION {[1..n -> ScanFiles] : n \in 0..MaxLen}
        \cup UNION {{[i \in 1..n |-> f] : f \in ScanFiles} : n \in 1..MaxFiles}

ScanScripts ==
    {"count_browser_files_fast", "count_browser_accessible_files",
     "count_files_with_access"}

\* str.lower() of one character
Lower(ch) ==
    CASE ch = "T" -> "t" [] ch = "D" -> "d" [] ch = "S" -> "s" [] OTHER -> ch

LowerName(filename) == [i \in DOMAIN filename |-> Lower(filename[i])]

StartsWith(filename, prefix) ==
    /\ Len(filename) >= Len(prefix)
    /\ SubSeq(filename, 1, Len(prefix)) = prefix

EndsWith(filename, suffix) ==
    /\ Len(filename) >= Len(suffix)
    /\ SubSeq(filename, Len(filename) - Len(suffix) + 1, Len(filename)) = suffix

\* ['thumbs.db', 'desktop.ini', '.ds_store']
MetadataNames ==
    {<<"t", "h", "u", "m", "b", "s", ".", "d", "b">>,
     <<"d", "e", "s", "k", "t", "o", "p", ".", "i", "n", "i">>,
     <<".", "d", "s", "_", "s", "t", "o", "r", "e">>}

DotTmp == <<".", "t", "m", "p">>

\* str(e) of the exception, without the path.
ErrorText(exception) ==
    CASE exception = "PermissionError" -> "[Errno 13] Permission denied"
      [] exception = "FileNotFoundError" -> "[Errno 2] No such file or directory"
      [] OTHER -> "[Errno 5] Input/output error"

\* isinstance(exception, cls): the three errors are all OSError.
IsInstance(exception, cls) == cls = exception \/ cls = "OSError"

\* The first except clause, in the order written, that catches the exception.
FirstHandler(exception, clauses) ==
    CHOOSE i \in 1..Len(clauses) :
        /\ \E cls \in clauses[i].classes : IsInstance(exception, cls)
        /\ \A j \in 1..(i - 1) :
               ~\E cls \in clauses[j].classes : IsInstance(exception, cls)

Result(accessible, reason) == [accessible |-> accessible, reason |-> reason]

\* The name tests without the one for temp names.
FastNameReasonNoTemp(filename) ==
    IF StartsWith(filename, <<".">>) THEN "Hidden (dot file)"
    ELSE IF LowerName(filename) \in MetadataNames THEN "System metadata"
    ELSE "ok"

\* is_browser_accessible_fast: the filename checks
FastNameReason(filename) ==
    IF StartsWith(filename, <<".">>) THEN "Hidden (dot file)"
    ELSE IF LowerName(filename) \in MetadataNames THEN "System metadata"
    ELSE IF StartsWith(filename, <<"~">>) \/ EndsWith(filename, DotTmp)
         THEN "Temp file"
    ELSE "ok"

\* is_browser_accessible_fast: except (FileNotFoundError, OSError), then
\* except PermissionError
FastStatClauses ==
    <<[classes |-> {"FileNotFoundError", "OSError"}, reason |-> "File not accessible: "],
      [classes |-> {"PermissionError"}, reason |-> "Permission denied"]>>

FastStatReason(exception) ==
    LET clause == FastStatClauses[FirstHandler(exception, FastStatClauses)]
    IN  IF clause.reason = "Permission denied" THEN clause.reason
        ELSE clause.reason \o ErrorText(exception)

\* is_browser_accessible_fast: the attribute checks
FastAttributeReason(attrs, recall_constant) ==
    IF ~attrs.present THEN "ok"
    ELSE IF "HIDDEN" \in attrs.bits THEN "Hidden file (Windows)"
    ELSE IF "SYSTEM" \in attrs.bits THEN "System file (Windows)"
    ELSE IF "TEMPORARY" \in attrs.bits THEN "Temporary file"
    ELSE IF "OFFLINE" \in attrs.bits THEN "Cloud file (offline)"
    ELSE IF recall_constant /\ "RECALL_ON_DATA_ACCESS" \in attrs.bits
         THEN "Cloud placeholder"
    ELSE IF "REPARSE_POINT" \in attrs.bits THEN "Reparse point (likely cloud)"
    ELSE "ok"

IsBrowserAccessibleFast(file, recall_constant) ==
    IF FastNameReason(file.name) # "ok"
    THEN Result(FALSE, FastNameReason(file.name))
    ELSE IF file.stat # "ok" THEN Result(FALSE, FastStatReason(file.stat))
    ELSE IF FastAttributeReason(file.attrs, recall_constant) # "ok"
         THEN Result(FALSE, FastAttributeReason(file.attrs, recall_constant))
    ELSE Result(TRUE, "Accessible")

\* is_browser_accessible: the attribute checks
AttributeReason(attrs, recall_constant) ==
    IF ~attrs.present THEN "ok"
    ELSE IF "HIDDEN" \in attrs.bits THEN "Hidden file"
    ELSE IF "SYSTEM" \in attrs.bits THEN "System file"
    ELSE IF "TEMPORARY" \in attrs.bits THEN "Temporary file"
    ELSE IF "OFFLINE" \in attrs.bits THEN "Offline/cloud placeholder"
    ELSE IF recall_constant /\ "RECALL_ON_DATA_ACCESS" \in attrs.bits
         THEN "Cloud recall file"
    ELSE "ok"

\* is_browser_accessible: the filename checks
NameReason(filename) ==
    IF StartsWith(filename, <<".">>) THEN "Dot file (Unix hidden)"
    ELSE IF StartsWith(filename, <<"~">>) /\ EndsWith(filename, DotTmp)
         THEN "Temp file"
    ELSE IF LowerName(filename) \in MetadataNames THEN "System metadata file"
    ELSE "ok"

\* except PermissionError, then except (FileNotFoundError, OSError)
OpenClauses ==
    <<[classes |-> {"PermissionError"}, reason |-> "Permission denied"],
      [classes |-> {"FileNotFoundError", "OSError"}, reason |-> "File access error: "]>>

OpenReason(exception) ==
    LET clause == OpenClauses[FirstHandler(exception, OpenClauses)]
    IN  IF clause.reason = "Permission denied" THEN clause.reason
        ELSE clause.reason \o ErrorText(exception)

\* is_browser_accessible: os.stat is inside the outer try, whose handler
\* catches every Exception.
IsBrowserAccessible(file, recall_constant) ==
    IF file.stat # "ok" THEN Result(FALSE, "Stat error: " \o ErrorText(file.stat))
    ELSE IF AttributeReason(file.attrs, recall_constant) # "ok"
         THEN Result(FALSE, AttributeReason(file.attrs, recall_constant))
    ELSE IF NameReason(file.name) # "ok" THEN Result(FALSE, NameReason(file.name))
    ELSE IF file.open # "ok" THEN Result(FALSE, OpenReason(file.open))
    ELSE Result(TRUE, "Accessible")

\* Which of the words the categories are told by occur in reason.lower().
ReasonWords(reason) ==
    CASE reason \in {"Hidden file", "Dot file (Unix hidden)"} -> {"hidden"}
      [] reason \in {"System file", "System metadata file"} -> {"system"}
      [] reason \in {"Permission denied", "Stat error: [Errno 13] Permission denied"}
             -> {"permission"}
      [] reason = "Offline/cloud placeholder" -> {"cloud", "offline"}
      [] reason = "Cloud recall file" -> {"cloud"}
      [] reason \in {"Temporary file", "Temp file"} -> {"temp"}
      [] OTHER -> {}

Increment(counts_dict, key) == [counts_dict EXCEPT ![key] = @ + 1]

\* The if / elif chain without its else branch.
CountCategoryNoOther(counts_dict, reason) ==
    LET words == ReasonWords(reason)
    IN  IF "hidden" \in words THEN Increment(counts_dict, "hidden_files")
        ELSE IF "system" \in words THEN Increment(counts_dict, "system_files")
        ELSE IF "permission" \in words THEN Increment(counts_dict, "permission_denied")
        ELSE IF "cloud" \in words \/ "offline" \in words
             THEN Increment(counts_dict, "cloud_files")
        ELSE IF "temp" \in words THEN Increment(counts_dict, "temp_files")
        ELSE counts_dict

\* analyze_browser_accessibility: categorize the exclusion reason
CountCategory(counts_dict, reason) ==
    LET words == ReasonWords(reason)
    IN  IF "hidden" \in words THEN Increment(counts_dict, "hidden_files")
        ELSE IF "system" \in words THEN Increment(counts_dict, "system_files")
        ELSE IF "permission" \in words THEN Increment(counts_dict, "permission_denied")
        ELSE IF "cloud" \in words \/ "offline" \in words
             THEN Increment(counts_dict, "cloud_files")
        ELSE IF "temp" \in words THEN Increment(counts_dict, "temp_files")
        ELSE Increment(counts_dict, "other_excluded")

\* reasons[reason] = reasons.get(reason, 0) + 1
CountReason(reasons, reason) ==
    DictSet(reasons, reason, (IF reason \in DOMAIN reasons THEN reasons[reason] ELSE 0) + 1)

\* if len(examples) < limit: examples.append((filepath, reason))
KeepExample(examples, limit, filepath, reason) ==
    IF Len(examples) < limit
    THEN Append(examples, [filepath |-> filepath, reason |-> reason])
    ELSE examples

\* The counts dict each scan starts from.
InitialCounts(s) ==
    CASE s = "count_browser_files_fast" ->
             [total_files |-> 0, browser_accessible |-> 0, exclusions |-> EmptyDict,
              examples |-> <<>>]
      [] s = "count_browser_accessible_files" ->
             [total_files |-> 0, browser_accessible |-> 0, hidden_files |-> 0,
              system_files |-> 0, permission_denied |-> 0, cloud_files |-> 0,
              temp_files |-> 0, other_excluded |-> 0, exclusion_reasons |-> EmptyDict,
              excluded_examples |-> <<>>]
      [] OTHER ->
             [total_files |-> 0, accessible_files |-> 0, cloud_only_files |-> 0,
              permission_errors |-> 0, cloud_files |-> <<>>, error_files |-> <<>>]

InitScan ==
    /\ script \in ScanScripts
    /\ content = [lines |-> <<>>, markers |-> <<>>]
    /\ pc = "scan"
    /\ Unused
    /\ UnusedMain
    /\ UnusedPhases
    /\ merged_data = <<>>
    /\ UnusedCalib
    /\ walk \in [files : Walks, recall_constant : BOOLEAN]
    /\ scanned = 0
    /\ counts = InitialCounts(script)

ScanUnchanged ==
    UNCHANGED <<merged_data, calibVars, phaseVars, mainVars, script, content,
                all_matches, test_run_data, test_run_positions, timing_data,
                folder_data, warnings, raised, walk>>

\* count_browser_files_fast: one turn of the loop over the walked files
CountFastFile ==
    /\ script = "count_browser_files_fast" /\ pc = "scan"
    /\ scanned < Len(walk.files)
    /\ LET filepath == scanned + 1
           r == IsBrowserAccessibleFast(walk.files[filepath], walk.recall_constant)
           counted == Increment(counts, "total_files")
       IN  counts' =
               IF r.accessible THEN Increment(counted, "browser_accessible")
               ELSE [counted EXCEPT
                         !.exclusions = CountReason(@, r.reason),
                         !.examples = KeepExample(@, 15, filepath, r.reason)]
    /\ scanned' = scanned + 1
    /\ pc' = "scan"
    /\ ScanUnchanged

\* analyze_browser_accessibility: one turn of the loop
AnalyzeBrowserFile ==
    /\ script = "count_browser_accessible_files" /\ pc = "scan"
    /\ scanned < Len(walk.files)
    /\ LET filepath == scanned + 1
           r == IsBrowserAccessible(walk.files[filepath], walk.recall_constant)
           counted == Increment(counts, "total_files")
       IN  counts' =
               IF r.accessible THEN Increment(counted, "browser_accessible")
               ELSE [CountCategory(counted, r.reason) EXCEPT
                         !.exclusion_reasons = CountReason(@, r.reason),
                         !.excluded_examples = KeepExample(@, 20, filepath, r.reason)]
    /\ scanned' = scanned + 1
    /\ pc' = "scan"
    /\ ScanUnchanged

\* check_file_accessibility: one turn of the loop; PermissionError is caught
\* before (FileNotFoundError, OSError).  stat plays no part: the file is
\* opened and one byte is read.
CheckAccessFile ==
    /\ script = "count_files_with_access" /\ pc = "scan"
    /\ scanned < Len(walk.files)
    /\ LET filepath == scanned + 1
           file == walk.files[filepath]
           counted == Increment(counts, "total_files")
       IN  counts' =
               IF file.open = "ok" THEN Increment(counted, "accessible_files")
               ELSE IF OpenClauses[FirstHandler(file.open, OpenClauses)].reason
                           = "Permission denied"
                    THEN [Increment(counted, "permission_errors") EXCEPT
                              !.error_files =
                                  Append(@, [filepath |-> filepath,
                                             reason |-> "Permission denied"])]
                    ELSE [Increment(counted, "cloud_only_files") EXCEPT
                              !.cloud_files =
                                  Append(@, [filepath |-> filepath,
                                             reason |-> ErrorText(file.open)])]
    /\ scanned' = scanned + 1
    /\ pc' = "scan"
    /\ ScanUnchanged

\* The walk is over: return counts
ScanReturn ==
    /\ script \in ScanScripts /\ pc = "scan"
    /\ scanned = Len(walk.files)
    /\ pc' = "done"
    /\ UNCHANGED <<scanned, counts>>
    /\ ScanUnchanged

NextScan ==
    \/ CountFastFile
    \/ AnalyzeBrowserFile
    \/ CheckAccessFile
    \/ ScanReturn

SpecScan == InitScan /\ [][NextScan]_vars

FastNameReasons == {"Hidden (dot file)", "System metadata", "Temp file"}

\* C23: is_browser_accessible_fast returns (False, 'Permission denied') for
\* a file whose os.stat raises PermissionError, and a 'File not accessible'
\* reason only for a FileNotFoundError or another OSError.
C23_FastReportsPermissionDenied ==
    script = "count_browser_files_fast" =>
        \A j \in 1..Len(counts.examples) :
            LET example == counts.examples[j]
                file == walk.files[example.filepath]
            IN  example.reason \notin FastNameReasons =>
                    /\ file.stat = "PermissionError" =>
                           example.reason = "Permission denied"
                    /\ example.reason
                           \in {"File not accessible: " \o ErrorText(e) : e \in Errors} =>
                           file.stat \in {"FileNotFoundError", "OSError"}

RECURSIVE SumOfCounts(_)
SumOfCounts(reasons) ==
    IF DOMAIN reasons = {} THEN 0
    ELSE LET reason == CHOOSE r \in DOMAIN reasons : TRUE
         IN  reasons[reason]
                 + SumOfCounts([r \in DOMAIN reasons \ {reason} |-> reasons[r]])

\* C29: after every walked file, analyze_browser_accessibility has counted
\* each file in exactly one outcome bucket (total_files is browser_accessible
\* plus the six exclusion categories, and browser_accessible plus the summed
\* exclusion_reasons counts) and keeps at most 20 excluded_examples;
\* check_file_accessibility has total_files = accessible_files +
\* cloud_only_files + permission_errors.
C29_EveryFileInOneBucket ==
    /\ script = "count_browser_accessible_files" =>
        /\ counts.total_files = scanned
        /\ counts.total_files =
               counts.browser_accessible + counts.hidden_files + counts.system_files
                   + counts.permission_denied + counts.cloud_files + counts.temp_files
                   + counts.other_excluded
        /\ counts.total_files =
               counts.browser_accessible + SumOfCounts(counts.exclusion_reasons)
        /\ Len(counts.excluded_examples) <= 20
    /\ script = "count_files_with_access" =>
        /\ counts.total_files = scanned
        /\ counts.total_files =
               counts.accessible_files + counts.cloud_only_files
                   + counts.permission_errors

\* More than 20 files that cannot be opened have been walked: all are counted
\* as other_excluded, and the examples stopped at 20.
C29_Witness ==
    /\ script = "count_browser_accessible_files"
    /\ counts.total_files > 20
    /\ counts.other_excluded = counts.total_files
    /\ Len(counts.excluded_examples) = 20

\* The reasons is_browser_accessible gives for a name or an attribute.
NameAttributeReasons ==
    {"Hidden file", "System file", "Temporary file", "Offline/cloud placeholder",
     "Cloud recall file", "Dot file (Unix hidden)", "Temp file",
     "System metadata file"}

FastAccessible(file) == IsBrowserAccessibleFast(file, walk.recall_constant).accessible

FullAccessible(file) == IsBrowserAccessible(file, walk.recall_constant).accessible

OpenableFile(name, bits) ==
    [name |-> name, attrs |-> [present |-> TRUE, bits |-> bits], stat |-> "ok",
     open |-> "ok"]

\* C30: a file that is_browser_accessible_fast counts as accessible is not
\* excluded by is_browser_accessible for a name or attribute reason; the
\* converse fails for a name that only starts with '~', a name that only
\* ends with '.tmp', and a reparse point, which the fast classifier alone
\* excludes.
C30_FastAtLeastAsStrict ==
    script = "count_browser_files_fast" =>
        LET accessible_files == {i \in 1..scanned : FastAccessible(walk.files[i])}
        IN  /\ counts.browser_accessible = Cardinality(accessible_files)
            /\ \A i \in accessible_files :
                   IsBrowserAccessible(walk.files[i], walk.recall_constant).reason
                       \notin NameAttributeReasons
            /\ \A f \in {OpenableFile(<<"~", "l", "o", "c", "k">>, {}),
                         OpenableFile(<<"a", ".", "t", "m", "p">>, {}),
                         OpenableFile(PlainName, {"REPARSE_POINT"})} :
                   f \in Files /\ ~FastAccessible(f) /\ FullAccessible(f)

\* The fast scan counted a file as accessible that carries the recall bit
\* while the stat module has no constant for it, and that cannot be opened:
\* the full classifier excludes it with 'Permission denied', not for its name
\* or attributes.
C30_Witness ==
    /\ script = "count_browser_files_fast" /\ pc = "done"
    /\ scanned = 1 /\ counts.browser_accessible = 1
    /\ walk.files[1].attrs.bits = {"RECALL_ON_DATA_ACCESS"}
    /\ ~walk.recall_constant
    /\ IsBrowserAccessible(walk.files[1], walk.recall_constant).reason
           = "Permission denied"

\* ------------------- speed_tests/parse_console_log.py parse_folder_analysis_data
\* The blob of a marker: the three file counts as logged (0 as well when the
\* field is not there) and totalSizeMB in hundredths of a MB.
MaxCount == 3

OldBlob ==
    [totalFiles : 0..MaxCount, mainFolderFiles : 0..MaxCount,
     subfolderFiles : 0..MaxCount, totalSizeMB : {0, 150}]

OldFolderLogs == {<<>>} \cup {<<b>> : b \in OldBlob}

Max(a, b) == IF a >= b THEN a ELSE b

\* round(x, 2) of the float num / den, in hundredths: to the nearest, a tie to
\* the even neighbour.
RoundHalfEven(num, den) ==
    LET q == num \div den
        r == num % den
    IN  IF 2 * r > den \/ (2 * r = den /\ q % 2 = 1) THEN q + 1 ELSE q

PyFloat(hundredths) == [t |-> "float", v |-> hundredths]

\* mainFolderFiles + subfolderFiles, not capped by totalFiles
UniqueFilesUncapped(data) == data.mainFolderFiles + data.subfolderFiles

\* unique_files_total = totalFiles - max(0, totalFiles - mainFolderFiles - subfolderFiles)
UniqueFilesTotal(data) ==
    data.totalFiles
        - Max(0, data.totalFiles - data.mainFolderFiles - data.subfolderFiles)

\* round(totalSizeMB * (mainFolderFiles / totalFiles), 2) if totalFiles > 0 else 0
MainFolderSizeMB(data) ==
    IF data.totalFiles > 0
    THEN PyFloat(RoundHalfEven(data.totalSizeMB * data.mainFolderFiles, data.totalFiles))
    ELSE PyInt(0)

OldFolderRow(test_run, data) ==
    LET unique_files_total == UniqueFilesTotal(data)
    IN  [TestRun |-> test_run,
         identicalSizeFiles |-> Max(0, data.totalFiles - unique_files_total),
         largestFileSizesMB |-> PyFloat(RoundHalfEven(data.totalSizeMB, 10)),
         mainFolderFiles |-> data.mainFolderFiles,
         mainFolderSizeMB |-> MainFolderSizeMB(data),
         maxDirectoryDepth |-> IF data.subfolderFiles > 0 THEN 5 ELSE 1,
         subfolderFiles |-> data.subfolderFiles,
         totalFiles |-> data.totalFiles,
         totalSizeMB |-> PyFloat(data.totalSizeMB),
         uniqueFilesMainFolder |-> data.mainFolderFiles,
         uniqueFilesTotal |-> unique_files_total,
         zeroByteFiles |-> 0]

InitOldFolder ==
    /\ script = "old_folder"
    /\ content \in [lines : {<<>>}, markers : OldFolderLogs]
    /\ pc = "start"
    /\ Unused
    /\ UnusedMain
    /\ UnusedPhases
    /\ UnusedTools

\* parse_folder_analysis_data: a row for every marker, numbered from 1
OldFolderPass ==
    /\ script = "old_folder" /\ pc = "start"
    /\ folder_data' = [i \in 1..Len(content.markers) |->
                          OldFolderRow(i, content.markers[i])]
    /\ pc' = "done"
    /\ UNCHANGED <<toolVars, phaseVars, mainVars, script, content, all_matches,
                   test_run_data, test_run_positions, timing_data, warnings, raised>>

NextOldFolder == OldFolderPass

SpecOldFolder == InitOldFolder /\ [][NextOldFolder]_vars

\* C28: in speed_tests/parse_console_log.py every marker with non-negative
\* totalFiles, mainFolderFiles and subfolderFiles yields a row with
\* uniqueFilesTotal = min(totalFiles, mainFolderFiles + subfolderFiles),
\* identicalSizeFiles >= 0, uniqueFilesTotal + identicalSizeFiles =
\* totalFiles, and a mainFolderSizeMB computed without dividing by zero:
\* 0 when totalFiles is 0, else totalSizeMB * mainFolderFiles / totalFiles
\* rounded to two places.
C28_DerivedFolderMetrics ==
    (script = "old_folder" /\ pc # "start") =>
        /\ Len(folder_data) = Len(content.markers)
        /\ \A i \in 1..Len(folder_data) :
            LET row == folder_data[i]
                blob == content.markers[i]
                sum == blob.mainFolderFiles + blob.subfolderFiles
            IN  /\ row.uniqueFilesTotal =
                       IF blob.totalFiles <= sum THEN blob.totalFiles ELSE sum
                /\ row.identicalSizeFiles >= 0
                /\ row.uniqueFilesTotal + row.identicalSizeFiles = blob.totalFiles
                /\ blob.totalFiles = 0 => row.mainFolderSizeMB = PyInt(0)
                /\ blob.totalFiles > 0 =>
                    /\ row.mainFolderSizeMB.t = "float"
                    /\ 2 * row.mainFolderSizeMB.v * blob.totalFiles
                           <= 2 * blob.totalSizeMB * blob.mainFolderFiles + blob.totalFiles
                    /\ 2 * row.mainFolderSizeMB.v * blob.totalFiles
                           >= 2 * blob.totalSizeMB * blob.mainFolderFiles - blob.totalFiles

\* A marker with totalFiles = 3, one file in the main folder and one in the
\* subfolders: two unique files, one of identical size, and a third of the
\* 1.5 MB in the main folder.
C28_Witness ==
    /\ script = "old_folder" /\ pc = "done"
    /\ Len(folder_data) = 1
    /\ folder_data[1].totalFiles = 3
    /\ folder_data[1].uniqueFilesTotal = 2
    /\ folder_data[1].identicalSizeFiles = 1
    /\ folder_data[1].mainFolderSizeMB = PyFloat(50)

====
